---- MODULE Spec2Model ----
(***************************************************************************)
(* Sales dashboard (src/app/page.tsx): the load effect, the row            *)
(* normalizer, the filter state and the memoised aggregate views of Page.  *)
(*                                                                         *)
(* Text is a sequence of one-character strings, so that trimming, case     *)
(* folding, padding and lexicographic order are computed, not assumed.     *)
(* Numbers are held in hundredths (100 stands for 1.00); every number the  *)
(* model enumerates is a multiple of 1/100 and sums of them are exact.     *)
(***************************************************************************)
EXTENDS Integers, Sequences, FiniteSets, TLC

(* ------------------------------ bounds -------------------------------- *)

\* At most this many records of the record pool make up the delivered CSV.
MaxRows == 3

\* At most this many of the seven filter inputs are away from their reset
\* values at once.
MaxActive == 2

(* ------------------------------- text --------------------------------- *)

UPPER == <<"A","B","C","D","E","F","G","H","I","J","K","L","M",
           "N","O","P","Q","R","S","T","U","V","W","X","Y","Z">>
LOWER == <<"a","b","c","d","e","f","g","h","i","j","k","l","m",
           "n","o","p","q","r","s","t","u","v","w","x","y","z">>
DIGITS == <<"0","1","2","3","4","5","6","7","8","9">>

\* Position of c in s, 0 when absent.
IndexOf(c, s) == IF \E i \in 1..Len(s) : s[i] = c
                 THEN CHOOSE i \in 1..Len(s) : s[i] = c /\ \A j \in 1..(i-1) : s[j] # c
                 ELSE 0

IsWS(c) == c \in {" ", "\t"}
IsDigit(c) == IndexOf(c, DIGITS) # 0
DigitVal(c) == IndexOf(c, DIGITS) - 1

UpperChar(c) == IF IndexOf(c, LOWER) # 0 THEN UPPER[IndexOf(c, LOWER)] ELSE c
LowerChar(c) == IF IndexOf(c, UPPER) # 0 THEN LOWER[IndexOf(c, UPPER)] ELSE c
toUpperCase(s) == [i \in 1..Len(s) |-> UpperChar(s[i])]
toLowerCase(s) == [i \in 1..Len(s) |-> LowerChar(s[i])]

\* Let(v, F) is F(v): it names a value that is used several times.
Let(v, F(_)) == F(v)

MinOf(S) == CHOOSE i \in S : \A x \in S : i <= x
MaxOf(S) == CHOOSE i \in S : \A x \in S : x <= i

\* String.prototype.trim
trim(s) ==
  Let({i \in 1..Len(s) : ~IsWS(s[i])}, LAMBDA keep :
    IF keep = {} THEN <<>> ELSE SubSeq(s, MinOf(keep), MaxOf(keep)))

\* String.prototype.split on a one-character separator
RECURSIVE split(_, _)
split(s, sep) ==
  Let(IndexOf(sep, s), LAMBDA i :
    IF i = 0 THEN <<s>>
    ELSE <<SubSeq(s, 1, i - 1)>> \o split(SubSeq(s, i + 1, Len(s)), sep))

includes(s, c) == IndexOf(c, s) # 0

\* Code unit of a character of a month key: '-' is 45, '0'..'9' are 48..57,
\* 'N' is 78 and 'a' is 97.
CodeUnit(c) == IF c = "-" THEN 45 ELSE IF c = "N" THEN 78 ELSE IF c = "a" THEN 97
               ELSE 48 + DigitVal(c)

\* The order of Array.prototype.sort() without a comparator: by UTF-16 code
\* units, a proper prefix first.
RECURSIVE StrLess(_, _)
StrLess(a, b) ==
  IF b = <<>> THEN FALSE
  ELSE IF a = <<>> THEN TRUE
  ELSE IF CodeUnit(Head(a)) # CodeUnit(Head(b)) THEN CodeUnit(Head(a)) < CodeUnit(Head(b))
  ELSE StrLess(Tail(a), Tail(b))

\* Decimal digits of a natural number, as String(n) prints them.
RECURSIVE NatStr(_)
NatStr(n) == IF n < 10 THEN <<DIGITS[n + 1]>>
             ELSE NatStr(n \div 10) \o <<DIGITS[(n % 10) + 1]>>

All == <<"A","l","l">>
Unknown == <<"U","n","k","n","o","w","n">>

(* --------------------------- field resolver --------------------------- *)

\* A raw record is a sequence of cells [k |-> key text, v |-> value text] with
\* distinct keys, in the parser's column order (header: true delivers every
\* value as a string, so r[k] != null holds for every key of the record).
HasKey(r, k) == \E i \in DOMAIN r : r[i].k = k
Get(r, k) == r[CHOOSE i \in DOMAIN r : r[i].k = k].v

\* map.get(want.toLowerCase().trim()): the index of the last cell whose key
\* folds to the same text (map.set overwrites), 0 when there is none.
RealIdx(r, want) ==
  Let({j \in DOMAIN r : trim(toLowerCase(r[j].k)) = trim(toLowerCase(want))},
      LAMBDA js : IF js = {} THEN 0 ELSE MaxOf(js))

\* Second pass of pick for one alias: the cell found by the folded key, 0
\* unless its key is non-empty and its value non-blank.
FoldedHit(r, want) ==
  Let(RealIdx(r, want),
      LAMBDA j : IF j # 0 /\ r[j].k # <<>> /\ trim(r[j].v) # <<>> THEN j ELSE 0)

pick(r, keys) ==
  Let({i \in DOMAIN keys : HasKey(r, keys[i]) /\ trim(Get(r, keys[i])) # <<>>}, LAMBDA hit1 :
    IF hit1 # {} THEN trim(Get(r, keys[MinOf(hit1)]))
    ELSE Let({i \in DOMAIN keys : FoldedHit(r, keys[i]) # 0}, LAMBDA hit2 :
           IF hit2 # {} THEN trim(r[FoldedHit(r, keys[MinOf(hit2)])].v)
           ELSE <<>>))

(* --------------------------- value coercers --------------------------- *)

RECURSIVE DigitsVal(_)
DigitsVal(ds) == IF ds = <<>> THEN 0
                 ELSE 10 * DigitsVal(SubSeq(ds, 1, Len(ds) - 1)) + DigitVal(ds[Len(ds)])

AllDigits(s) == \A i \in DOMAIN s : IsDigit(s[i])

NaN == [fin |-> FALSE, n |-> 0]
Finite(n) == [fin |-> TRUE, n |-> n]

\* An unsigned decimal literal, integer part ip and fraction part fp, in
\* hundredths; at most two fraction digits are held.
Unsigned(ip, fp) ==
  IF AllDigits(ip) /\ AllDigits(fp) /\ Len(ip) + Len(fp) > 0 /\ Len(fp) <= 2
  THEN Finite(100 * DigitsVal(ip) + (IF Len(fp) = 1 THEN 10 * DigitsVal(fp) ELSE DigitsVal(fp)))
  ELSE NaN

UnsignedText(body) ==
  Let(IndexOf(".", body), LAMBDA dot :
    IF dot = 0 THEN Unsigned(body, <<>>)
    ELSE Unsigned(SubSeq(body, 1, dot - 1), SubSeq(body, dot + 1, Len(body))))

Negated(x) == IF x.fin THEN Finite(0 - x.n) ELSE x

\* Number(text) for decimal literals with at most two fraction digits: the
\* value in hundredths, or not finite (NaN).  The empty text is 0.
JsNumber(s) ==
  Let(trim(s), LAMBDA t :
    IF t = <<>> THEN Finite(0)
    ELSE IF t[1] = "-" THEN Negated(UnsignedText(Tail(t)))
    ELSE IF t[1] = "+" THEN UnsignedText(Tail(t))
    ELSE UnsignedText(t))

\* A faulty coercer: the text is converted as it stands.
toNumberUnstripped(v) ==
  Let(JsNumber(v), LAMBDA n : IF n.fin THEN n.n ELSE 0)

toNumber(v) ==
  Let(JsNumber(SelectSeq(v, LAMBDA c : ~(c \in {"$", ",", "%"} \/ IsWS(c)))),
      LAMBDA n : IF n.fin THEN n.n ELSE 0)

(* ------------------------------ calendar ------------------------------ *)

NullDate == [kind |-> "null", y |-> 0, m |-> 0, d |-> 0]
InvalidDate == [kind |-> "invalid", y |-> 0, m |-> 0, d |-> 0]

\* Day number of a proleptic Gregorian date (0 is 1970-01-01).
DaysFromCivil(y, m, d) ==
  Let(IF m <= 2 THEN y - 1 ELSE y, LAMBDA yy :
  Let(yy \div 400, LAMBDA era :
  Let(yy - era * 400, LAMBDA yoe :
  Let((153 * (IF m > 2 THEN m - 3 ELSE m + 9) + 2) \div 5 + d - 1, LAMBDA doy :
    era * 146097 + (yoe * 365 + yoe \div 4 - yoe \div 100 + doy) - 719468))))

CivilFromDays(z0) ==
  Let(z0 + 719468, LAMBDA z :
  Let(z \div 146097, LAMBDA era :
  Let(z - era * 146097, LAMBDA doe :
  Let((doe - doe \div 1460 + doe \div 36524 - doe \div 146096) \div 365, LAMBDA yoe :
  Let(doe - (365 * yoe + yoe \div 4 - yoe \div 100), LAMBDA doy :
  Let((5 * doy + 2) \div 153, LAMBDA mp :
  Let(IF mp < 10 THEN mp + 3 ELSE mp - 9, LAMBDA m :
    [kind |-> "date",
     y |-> yoe + era * 400 + (IF m <= 2 THEN 1 ELSE 0),
     m |-> m,
     d |-> doy - (153 * mp + 2) \div 5 + 1])))))))

\* new Date(year, monthIndex, day) in local time: years 0..99 mean 1900..1999,
\* month and day outside their ranges carry over.
MakeDate(year, monthIndex, day) ==
  Let(IF year >= 0 /\ year <= 99 THEN 1900 + year ELSE year, LAMBDA yy :
    CivilFromDays(DaysFromCivil(yy + monthIndex \div 12, (monthIndex % 12) + 1, 1) + day - 1))

\* getTime() / 86400000 of a valid date, for a host without clock changes.
DayNumber(dt) == DaysFromCivil(dt.y, dt.m, dt.d)

\* Truncation of a number held in hundredths to an integer (ToIntegerOrInfinity).
Trunc(n) == IF n >= 0 THEN n \div 100 ELSE 0 - ((0 - n) \div 100)

\* The date of an all-digit triple read by the host's general parsing: sep is
\* the separator, p the three parts.  A four-digit first part before "-" is the
\* ISO layout year-month-day (read here as the same calendar day, as a host
\* at or east of UTC reads it); otherwise the layout is month, day, year with
\* month 1..12 and day 1..31, a two-digit year meaning 2000..2049 or
\* 1950..1999.
DateOfTriple(sep, la, lc, a, b, c) ==
  IF la = 4 /\ sep = "-"
  THEN Let(CivilFromDays(DaysFromCivil(a, b, c)), LAMBDA dt :
         IF b \in 1..12 /\ c \in 1..31 /\ dt.m = b THEN dt ELSE InvalidDate)
  ELSE IF a \in 1..12 /\ b \in 1..31 /\ la <= 2
    THEN CivilFromDays(DaysFromCivil(IF lc > 2 THEN c ELSE IF c < 50 THEN 2000 + c ELSE 1900 + c,
                                     a, 1) + b - 1)
  ELSE InvalidDate

\* new Date(str): the host's general date parsing, for the layouts the
\* dataset can hold: three all-digit parts separated by "/", "-" or ".".
\* Anything else is an invalid date.
NewDate(str) ==
  Let(IF includes(str, "/") THEN "/" ELSE IF includes(str, "-") THEN "-" ELSE ".", LAMBDA sep :
  Let(split(str, sep), LAMBDA p :
    IF Len(p) = 3 /\ (\A i \in 1..3 : p[i] # <<>> /\ AllDigits(p[i])) /\ Len(p[2]) <= 2
    THEN DateOfTriple(sep, Len(p[1]), Len(p[3]),
                      DigitsVal(p[1]), DigitsVal(p[2]), DigitsVal(p[3]))
    ELSE InvalidDate))

\* new Date(y, m - 1, d) over parsed parts: an invalid date when a part is NaN.
DateOfParts(y, m, d) ==
  IF y.fin /\ m.fin /\ d.fin THEN MakeDate(Trunc(y.n), Trunc(m.n) - 1, Trunc(d.n))
  ELSE InvalidDate

Truthy(x) == x.fin /\ x.n # 0

\* Number(parts[i]), NaN for a missing part (Number(undefined)).
PartNumber(parts, i) == IF i <= Len(parts) THEN JsNumber(parts[i]) ELSE NaN

\* The slash rule: [mm, dd, yyyy] = str.split("/"), taken when all three are
\* truthy.  The result is NullDate when the rule does not apply.
SlashRule(str) ==
  Let(split(str, "/"), LAMBDA sp :
  Let(<<PartNumber(sp, 1), PartNumber(sp, 2), PartNumber(sp, 3)>>, LAMBDA n :
    IF includes(str, "/") /\ Truthy(n[1]) /\ Truthy(n[2]) /\ Truthy(n[3])
    THEN DateOfParts(n[3], n[1], n[2])
    ELSE NullDate))

\* The dash-or-dot rule over exactly three trimmed parts: the first part is
\* the day when it exceeds 12, else the month.  NullDate when it does not apply.
DashRule(str) ==
  Let(split(str, IF includes(str, "-") THEN "-" ELSE "."), LAMBDA parts :
    IF (includes(str, "-") \/ includes(str, ".")) /\ Len(parts) = 3
    THEN Let(<<JsNumber(trim(parts[1])), JsNumber(trim(parts[2])), JsNumber(trim(parts[3]))>>,
             LAMBDA n :
               Let(n[1].fin /\ n[1].n > 1200, LAMBDA dayFirst :
                 DateOfParts(n[3], IF dayFirst THEN n[2] ELSE n[1],
                                   IF dayFirst THEN n[1] ELSE n[2])))
    ELSE NullDate)

\* The rules after general parsing; a rule that returns ends the function.
LaterRules(str) ==
  Let(SlashRule(str), LAMBDA viaSlash :
    IF viaSlash.kind # "null" THEN viaSlash ELSE DashRule(str))

parseDate(v) ==
  IF v = <<>> THEN NullDate
  ELSE Let(trim(v), LAMBDA str :
       Let(NewDate(str), LAMBDA iso :
         IF iso.kind = "date" THEN iso ELSE LaterRules(str)))

\* d.getFullYear() of a date value: NaN for an invalid date.
HasYear(dt) == dt.kind = "date"

\* getFullYear() and getMonth() of an invalid date are NaN, and NaN < 10 is false.
monthKey(d) ==
  IF d.kind # "date" THEN <<"N","a","N","-","N","a","N">>
  ELSE (IF d.y < 0 THEN <<"-">> \o NatStr(0 - d.y) ELSE NatStr(d.y))
         \o <<"-">> \o (IF d.m < 10 THEN <<"0">> \o NatStr(d.m) ELSE NatStr(d.m))

(* ---------------------------- geo normalizer -------------------------- *)

STATE_TO_ABBR == <<
  <<<<"A","L","A","B","A","M","A">>, <<"A","L">>>>,
  <<<<"A","L","A","S","K","A">>, <<"A","K">>>>,
  <<<<"A","R","I","Z","O","N","A">>, <<"A","Z">>>>,
  <<<<"A","R","K","A","N","S","A","S">>, <<"A","R">>>>,
  <<<<"C","A","L","I","F","O","R","N","I","A">>, <<"C","A">>>>,
  <<<<"C","O","L","O","R","A","D","O">>, <<"C","O">>>>,
  <<<<"C","O","N","N","E","C","T","I","C","U","T">>, <<"C","T">>>>,
  <<<<"D","E","L","A","W","A","R","E">>, <<"D","E">>>>,
  <<<<"D","I","S","T","R","I","C","T"," ","O","F"," ","C","O","L","U","M","B","I","A">>, <<"D","C">>>>,
  <<<<"F","L","O","R","I","D","A">>, <<"F","L">>>>,
  <<<<"G","E","O","R","G","I","A">>, <<"G","A">>>>,
  <<<<"H","A","W","A","I","I">>, <<"H","I">>>>,
  <<<<"I","D","A","H","O">>, <<"I","D">>>>,
  <<<<"I","L","L","I","N","O","I","S">>, <<"I","L">>>>,
  <<<<"I","N","D","I","A","N","A">>, <<"I","N">>>>,
  <<<<"I","O","W","A">>, <<"I","A">>>>,
  <<<<"K","A","N","S","A","S">>, <<"K","S">>>>,
  <<<<"K","E","N","T","U","C","K","Y">>, <<"K","Y">>>>,
  <<<<"L","O","U","I","S","I","A","N","A">>, <<"L","A">>>>,
  <<<<"M","A","I","N","E">>, <<"M","E">>>>,
  <<<<"M","A","R","Y","L","A","N","D">>, <<"M","D">>>>,
  <<<<"M","A","S","S","A","C","H","U","S","E","T","T","S">>, <<"M","A">>>>,
  <<<<"M","I","C","H","I","G","A","N">>, <<"M","I">>>>,
  <<<<"M","I","N","N","E","S","O","T","A">>, <<"M","N">>>>,
  <<<<"M","I","S","S","I","S","S","I","P","P","I">>, <<"M","S">>>>,
  <<<<"M","I","S","S","O","U","R","I">>, <<"M","O">>>>,
  <<<<"M","O","N","T","A","N","A">>, <<"M","T">>>>,
  <<<<"N","E","B","R","A","S","K","A">>, <<"N","E">>>>,
  <<<<"N","E","V","A","D","A">>, <<"N","V">>>>,
  <<<<"N","E","W"," ","H","A","M","P","S","H","I","R","E">>, <<"N","H">>>>,
  <<<<"N","E","W"," ","J","E","R","S","E","Y">>, <<"N","J">>>>,
  <<<<"N","E","W"," ","M","E","X","I","C","O">>, <<"N","M">>>>,
  <<<<"N","E","W"," ","Y","O","R","K">>, <<"N","Y">>>>,
  <<<<"N","O","R","T","H"," ","C","A","R","O","L","I","N","A">>, <<"N","C">>>>,
  <<<<"N","O","R","T","H"," ","D","A","K","O","T","A">>, <<"N","D">>>>,
  <<<<"O","H","I","O">>, <<"O","H">>>>,
  <<<<"O","K","L","A","H","O","M","A">>, <<"O","K">>>>,
  <<<<"O","R","E","G","O","N">>, <<"O","R">>>>,
  <<<<"P","E","N","N","S","Y","L","V","A","N","I","A">>, <<"P","A">>>>,
  <<<<"R","H","O","D","E"," ","I","S","L","A","N","D">>, <<"R","I">>>>,
  <<<<"S","O","U","T","H"," ","C","A","R","O","L","I","N","A">>, <<"S","C">>>>,
  <<<<"S","O","U","T","H"," ","D","A","K","O","T","A">>, <<"S","D">>>>,
  <<<<"T","E","N","N","E","S","S","E","E">>, <<"T","N">>>>,
  <<<<"T","E","X","A","S">>, <<"T","X">>>>,
  <<<<"U","T","A","H">>, <<"U","T">>>>,
  <<<<"V","E","R","M","O","N","T">>, <<"V","T">>>>,
  <<<<"V","I","R","G","I","N","I","A">>, <<"V","A">>>>,
  <<<<"W","A","S","H","I","N","G","T","O","N">>, <<"W","A">>>>,
  <<<<"W","E","S","T"," ","V","I","R","G","I","N","I","A">>, <<"W","V">>>>,
  <<<<"W","I","S","C","O","N","S","I","N">>, <<"W","I">>>>,
  <<<<"W","Y","O","M","I","N","G">>, <<"W","Y">>>>
>>

\* STATE_TO_ABBR[name] ?? ""
AbbrOf(name) ==
  Let({i \in DOMAIN STATE_TO_ABBR : STATE_TO_ABBR[i][1] = name}, LAMBDA hits :
    IF hits # {} THEN STATE_TO_ABBR[MinOf(hits)][2] ELSE <<>>)

\* A faulty normalizer: a two-character text is kept as typed.
toStateAbbrAsTyped(s) ==
  Let(trim(s), LAMBDA t :
    IF t = <<>> THEN <<>>
    ELSE IF Len(t) = 2 THEN t
    ELSE AbbrOf(toUpperCase(t)))

toStateAbbr(s) ==
  Let(trim(s), LAMBDA t :
    IF t = <<>> THEN <<>>
    ELSE IF Len(t) = 2 THEN toUpperCase(t)
    ELSE AbbrOf(toUpperCase(t)))

(* --------------------------- row normalizer --------------------------- *)

OrUnknown(t) == IF t = <<>> THEN Unknown ELSE t

\* One canonical row of the rows memo (raw.map callback).
RowOf(r) ==
  [ orderId   |-> pick(r, <<<<"O","r","d","e","r"," ","I","D">>, <<"O","r","d","e","r"," ","I","d">>, <<"O","r","d","e","r","I","D">>, <<"o","r","d","e","r"," ","i","d">>, <<"o","r","d","e","r","_","i","d">>>>),
    orderDate |-> parseDate(pick(r, <<<<"O","r","d","e","r"," ","D","a","t","e">>, <<"o","r","d","e","r"," ","d","a","t","e">>, <<"O","r","d","e","r","D","a","t","e">>,
                                      <<"O","r","d","e","r","_","D","a","t","e">>, <<"D","a","t","e">>, <<"o","r","d","e","r","_","d","a","t","e">>>>)),
    shipDate  |-> parseDate(pick(r, <<<<"S","h","i","p"," ","D","a","t","e">>, <<"s","h","i","p"," ","d","a","t","e">>, <<"S","h","i","p","D","a","t","e">>,
                                      <<"S","h","i","p","_","D","a","t","e">>, <<"s","h","i","p","_","d","a","t","e">>>>)),
    sales     |-> toNumber(pick(r, <<<<"S","a","l","e","s">>, <<"s","a","l","e","s">>, <<"T","o","t","a","l"," ","S","a","l","e","s">>, <<"t","o","t","a","l","_","s","a","l","e","s">>>>)),
    profit    |-> toNumber(pick(r, <<<<"P","r","o","f","i","t">>, <<"p","r","o","f","i","t">>, <<"T","o","t","a","l"," ","P","r","o","f","i","t">>, <<"t","o","t","a","l","_","p","r","o","f","i","t">>>>)),
    discount  |-> toNumber(pick(r, <<<<"D","i","s","c","o","u","n","t">>, <<"d","i","s","c","o","u","n","t">>>>)),
    region    |-> OrUnknown(pick(r, <<<<"R","e","g","i","o","n">>, <<"r","e","g","i","o","n">>>>)),
    segment   |-> OrUnknown(pick(r, <<<<"C","u","s","t","o","m","e","r"," ","S","e","g","m","e","n","t">>, <<"c","u","s","t","o","m","e","r"," ","s","e","g","m","e","n","t">>, <<"S","e","g","m","e","n","t">>,
                                      <<"s","e","g","m","e","n","t">>, <<"C","u","s","t"," ","S","e","g","m","e","n","t">>>>)),
    category  |-> OrUnknown(pick(r, <<<<"C","a","t","e","g","o","r","y">>, <<"c","a","t","e","g","o","r","y">>>>)),
    subCategory |-> OrUnknown(pick(r, <<<<"S","u","b","-","C","a","t","e","g","o","r","y">>, <<"S","u","b"," ","C","a","t","e","g","o","r","y">>, <<"s","u","b","-","c","a","t","e","g","o","r","y">>,
                                        <<"s","u","b"," ","c","a","t","e","g","o","r","y">>, <<"S","u","b","C","a","t","e","g","o","r","y">>>>)),
    shipMode  |-> OrUnknown(pick(r, <<<<"S","h","i","p"," ","M","o","d","e">>, <<"s","h","i","p"," ","m","o","d","e">>, <<"S","h","i","p","M","o","d","e">>>>)),
    state     |-> pick(r, <<<<"S","t","a","t","e"," ","o","r"," ","P","r","o","v","i","n","c","e">>, <<"s","t","a","t","e"," ","o","r"," ","p","r","o","v","i","n","c","e">>, <<"S","t","a","t","e">>,
                            <<"S","t","a","t","e","/","P","r","o","v","i","n","c","e">>, <<"P","r","o","v","i","n","c","e">>>>),
    productContainer |-> OrUnknown(pick(r, <<<<"P","r","o","d","u","c","t"," ","C","o","n","t","a","i","n","e","r">>, <<"p","r","o","d","u","c","t"," ","c","o","n","t","a","i","n","e","r">>>>)),
    productName |-> OrUnknown(pick(r, <<<<"P","r","o","d","u","c","t"," ","N","a","m","e">>, <<"p","r","o","d","u","c","t"," ","n","a","m","e">>>>)),
    baseMargin |-> toNumber(pick(r, <<<<"P","r","o","d","u","c","t"," ","B","a","s","e"," ","M","a","r","g","i","n">>, <<"p","r","o","d","u","c","t"," ","b","a","s","e"," ","m","a","r","g","i","n">>,
                                      <<"B","a","s","e"," ","M","a","r","g","i","n">>, <<"b","a","s","e"," ","m","a","r","g","i","n">>>>)) ]

Normalize(rawRows) == [i \in 1..Len(rawRows) |-> RowOf(rawRows[i])]

(* ------------------------- the delivered dataset ---------------------- *)

\* Header row of the CSV: some columns under their preferred alias, some
\* under a later alias, some only matching when case and blanks are ignored.
Header == << <<"O","r","d","e","r"," ","I","D">>, <<"o","r","d","e","r"," ","d","a","t","e">>, <<"S","h","i","p"," ","D","a","t","e">>, <<"S","A","L","E","S">>, <<"P","r","o","f","i","t">>,
             <<"D","i","s","c","o","u","n","t">>, <<"R","e","g","i","o","n"," ">>, <<"C","u","s","t","o","m","e","r"," ","S","e","g","m","e","n","t">>, <<"C","a","t","e","g","o","r","y">>,
             <<"S","u","b","-","C","a","t","e","g","o","r","y">>, <<"S","h","i","p"," ","M","o","d","e">>, <<"S","t","a","t","e"," ","o","r"," ","P","r","o","v","i","n","c","e">>,
             <<"P","r","o","d","u","c","t"," ","C","o","n","t","a","i","n","e","r">>, <<"P","r","o","d","u","c","t"," ","N","a","m","e">>, <<"P","r","o","d","u","c","t"," ","B","a","s","e"," ","M","a","r","g","i","n">> >>

\* The record the parser makes of one line: a line shorter than the header
\* gives a record with only the leading keys.
Rec(values) == [i \in 1..Len(values) |-> [k |-> Header[i], v |-> values[i]]]

\* Lines the CSV may hold, in file order.
Pool == <<
  Rec(<< <<"A","1">>, <<"2","/","1","0","/","2","0","1","4">>, <<"2","/","1","2","/","2","0","1","4">>, <<"1","0">>, <<"3">>, <<"0",".","1">>, <<"E","a","s","t">>, <<"C","o","n","s","u","m","e","r">>,
         <<"F","u","r","n","i","t","u","r","e">>, <<"C","h","a","i","r","s">>, <<"R","e","g","u","l","a","r"," ","A","i","r">>, <<"C","a","l","i","f","o","r","n","i","a">>, <<"S","m","a","l","l"," ","B","o","x">>,
         <<"C","h","a","i","r">>, <<"0",".","5">> >>),
  Rec(<< <<"A","1">>, <<"1","1","/","5","/","2","0","1","4">>, <<"1","1","/","6","/","2","0","1","4">>, <<"$","1","0",".","0","0">>, <<"-","2">>, <<"0">>, <<"W","e","s","t">>, <<"C","o","r","p","o","r","a","t","e">>,
         <<"T","e","c","h","n","o","l","o","g","y">>, <<"P","h","o","n","e","s">>, <<"E","x","p","r","e","s","s"," ","A","i","r">>, <<"c","a">>, <<"L","a","r","g","e"," ","B","o","x">>,
         <<"P","h","o","n","e">>, <<"0",".","6">> >>),
  Rec(<< <<>>, <<>>, <<"3","/","1","/","2","0","1","4">>, <<"7">>, <<"1">>, <<"0",".","2">>, <<"E","a","s","t">>, <<"C","o","n","s","u","m","e","r">>,
         <<"F","u","r","n","i","t","u","r","e">>, <<"T","a","b","l","e","s">>, <<"R","e","g","u","l","a","r"," ","A","i","r">>, <<"T","e","x","a","s">>, <<"S","m","a","l","l"," ","B","o","x">>,
         <<"T","a","b","l","e">>, <<"0",".","4">> >>),
  Rec(<< <<>>, <<"1","5","-","0","3","-","9","9","9">>, <<>>, <<"5">>, <<"5">>, <<"1","0","%">>, <<>>, <<"C","o","n","s","u","m","e","r">>,
         <<"T","e","c","h","n","o","l","o","g","y">>, <<"P","h","o","n","e","s">>, <<"E","x","p","r","e","s","s"," ","A","i","r">>, <<"A","t","l","a","n","t","i","s">>, <<"L","a","r","g","e"," ","B","o","x">>,
         <<"P","h","o","n","e">>, <<"n","/","a">> >>),
  Rec(<< <<"B","2">>, <<" ","1","/","2","0","/","2","0","1","5"," ">>, <<"a","-","b","-","c">>, <<"a","b","c">>, <<"4">>, <<"0">>, <<"E","a","s","t">>, <<"C","o","r","p","o","r","a","t","e">>,
         <<"F","u","r","n","i","t","u","r","e">>, <<"C","h","a","i","r","s">>, <<"R","e","g","u","l","a","r"," ","A","i","r">>, <<>>, <<"S","m","a","l","l"," ","B","o","x">>,
         <<"C","h","a","i","r">>, <<"0",".","5">> >>),
  Rec(<< <<"n","o","t","e">> >>)
>>

\* The parsed.data sequences the parser may deliver: up to MaxRows lines of
\* the pool, in file order.
RECURSIVE SubSeqs(_, _)
SubSeqs(s, n) ==
  IF s = <<>> \/ n = 0 THEN {<<>>}
  ELSE SubSeqs(Tail(s), n) \cup {<<Head(s)>> \o t : t \in SubSeqs(Tail(s), n - 1)}

Datasets == SubSeqs(Pool, MaxRows)

\* parsed.data filtered by r && Object.keys(r).length > 1
KeepRecords(data) == SelectSeq(data, LAMBDA r : Len(r) > 1)

(* ----------------------------- filter engine -------------------------- *)

Min2(a, b) == IF a <= b THEN a ELSE b
Max2(a, b) == IF a >= b THEN a ELSE b

\* A faulty filter callback: the year bounds are used in the order given.
PassUnordered(r, f) ==
  /\ HasYear(r.orderDate)
  /\ r.orderDate.y >= f.yearFrom /\ r.orderDate.y <= f.yearTo
  /\ f.region # All => r.region = f.region
  /\ f.segment # All => r.segment = f.segment
  /\ f.category # All => r.category = f.category
  /\ f.stateName # All => r.state = f.stateName
  /\ f.shipMode # All => r.shipMode = f.shipMode

\* A faulty filter callback: a row without a year skips the year test.
PassUndated(r, f) ==
  /\ HasYear(r.orderDate) => /\ r.orderDate.y >= Min2(f.yearFrom, f.yearTo)
                             /\ r.orderDate.y <= Max2(f.yearFrom, f.yearTo)
  /\ f.region # All => r.region = f.region
  /\ f.segment # All => r.segment = f.segment
  /\ f.category # All => r.category = f.category
  /\ f.stateName # All => r.state = f.stateName
  /\ f.shipMode # All => r.shipMode = f.shipMode

\* The callback of rows.filter: f is the Filter State
\* [region, segment, category, stateName, shipMode, yearFrom, yearTo].
Pass(r, f) ==
  LET y1 == Min2(f.yearFrom, f.yearTo)
      y2 == Max2(f.yearFrom, f.yearTo)
  IN  IF ~HasYear(r.orderDate) THEN FALSE
      ELSE IF r.orderDate.y < y1 \/ r.orderDate.y > y2 THEN FALSE
      ELSE IF f.region # All /\ r.region # f.region THEN FALSE
      ELSE IF f.segment # All /\ r.segment # f.segment THEN FALSE
      ELSE IF f.category # All /\ r.category # f.category THEN FALSE
      ELSE IF f.stateName # All /\ r.state # f.stateName THEN FALSE
      ELSE IF f.shipMode # All /\ r.shipMode # f.shipMode THEN FALSE
      ELSE TRUE

FilterRows(rs, f) == SelectSeq(rs, LAMBDA r : Pass(r, f))

(* --------------------------- aggregation engine ----------------------- *)

RECURSIVE SumSeq(_)
SumSeq(s) == IF s = <<>> THEN 0 ELSE Head(s) + SumSeq(Tail(s))

\* The distinct values of a sequence in order of first occurrence: the key
\* order of a Map (or Set) filled by one pass over the sequence.
RECURSIVE Distinct(_)
Distinct(s) ==
  IF s = <<>> THEN <<>>
  ELSE Let(Distinct(SubSeq(s, 1, Len(s) - 1)), LAMBDA front :
         IF \E i \in DOMAIN front : front[i] = s[Len(s)] THEN front
         ELSE Append(front, s[Len(s)]))

\* s with x put in after its first n items.
InsertAt(s, n, x) == SubSeq(s, 1, n) \o <<x>> \o SubSeq(s, n + 1, Len(s))

\* A faulty sort: the items stay in insertion order.
KeepOrder(items) == items

\* Array.prototype.sort with comparator (a, b) => b.v - a.v: descending by v,
\* stable, so items comparing equal keep their order.
RECURSIVE SortDesc(_)
SortDesc(items) ==
  IF items = <<>> THEN <<>>
  ELSE Let(SortDesc(SubSeq(items, 1, Len(items) - 1)), LAMBDA front :
         InsertAt(front,
                  Cardinality({i \in DOMAIN front : front[i].v >= items[Len(items)].v}),
                  items[Len(items)]))

\* Array.prototype.sort() of texts: ascending by code units.
RECURSIVE SortAsc(_)
SortAsc(keys) ==
  IF keys = <<>> THEN <<>>
  ELSE Let(SortAsc(SubSeq(keys, 1, Len(keys) - 1)), LAMBDA front :
         InsertAt(front,
                  Cardinality({i \in DOMAIN front : ~StrLess(keys[Len(keys)], front[i])}),
                  keys[Len(keys)]))

\* Map accumulation m.set(K(r), (m.get(K(r)) || 0) + V(r)) over rs, then
\* Array.from(m.entries()): one item [k, v] per key, in first-occurrence order.
\* keys and vals are the key and the value of each row, in row order.
AccumulateKV(keys, vals) ==
  Let(Distinct(keys), LAMBDA ks :
    [j \in DOMAIN ks |->
       [k |-> ks[j],
        v |-> SumSeq([i \in DOMAIN keys |-> IF keys[i] = ks[j] THEN vals[i] ELSE 0])]])

\* The values of one field of the rows, in row order (rs.map((r) => r.field)).
Col(rs, field) == [i \in DOMAIN rs |-> rs[i][field]]

\* The accumulation keyed by one field of the rows, summing another.
Accumulate(rs, key, metric) == AccumulateKV(Col(rs, key), Col(rs, metric))

Take(s, n) == SubSeq(s, 1, Min2(n, Len(s)))

LabelsValues(items) ==
  [labels |-> [i \in DOMAIN items |-> items[i].k], values |-> [i \in DOMAIN items |-> items[i].v]]

BySegment(fr) == LabelsValues(SortDesc(Accumulate(fr, "segment", "sales")))
ByCategory(fr) == LabelsValues(SortDesc(Accumulate(fr, "category", "sales")))
SalesByRegion(fr) == LabelsValues(SortDesc(Accumulate(fr, "region", "sales")))

TopSubCategories == 10
TopContainers == 8
\* A faulty view: the entries are cut to ten before they are sorted.
ProfitBySubCategoryCutFirst(fr) ==
  LabelsValues(SortDesc(Take(Accumulate(fr, "subCategory", "profit"), TopSubCategories)))
ProfitBySubCategory(fr) ==
  LabelsValues(Take(SortDesc(Accumulate(fr, "subCategory", "profit")), TopSubCategories))
SalesByProductContainer(fr) ==
  LabelsValues(Take(SortDesc(Accumulate(fr, "productContainer", "sales")), TopContainers))

\* byState: rows whose state has no code are skipped; sales and profit are
\* accumulated per code; sorted descending by sales.
ByStateOf(abbrs, fr) ==
  Let(SelectSeq([i \in DOMAIN fr |-> [abbr |-> abbrs[i], sales |-> fr[i].sales,
                                      profit |-> fr[i].profit]],
                LAMBDA c : c.abbr # <<>>), LAMBDA coded :
  Let([i \in DOMAIN coded |-> coded[i].abbr], LAMBDA keys :
  Let(SortDesc(AccumulateKV(keys, [i \in DOMAIN coded |-> coded[i].sales])), LAMBDA items :
    [abbr |-> [i \in DOMAIN items |-> items[i].k],
     sales |-> [i \in DOMAIN items |-> items[i].v],
     profit |-> [i \in DOMAIN items |->
                   SumSeq([j \in DOMAIN coded |->
                             IF keys[j] = items[i].k THEN coded[j].profit ELSE 0])]])))

ByState(fr) == ByStateOf([i \in DOMAIN fr |-> toStateAbbr(fr[i].state)], fr)

\* byMonth: rows without an order date are skipped; keys sorted ascending.
SumWhere(keys, k, vals) ==
  SumSeq([i \in DOMAIN keys |-> IF keys[i] = k THEN vals[i] ELSE 0])

ByMonthOf(dated) ==
  Let([i \in DOMAIN dated |-> monthKey(dated[i].orderDate)], LAMBDA ks :
  Let(SortAsc(Distinct(ks)), LAMBDA keys :
    [x |-> keys,
     sales |-> [i \in DOMAIN keys |->
                  SumWhere(ks, keys[i], [j \in DOMAIN dated |-> dated[j].sales])],
     profit |-> [i \in DOMAIN keys |->
                   SumWhere(ks, keys[i], [j \in DOMAIN dated |-> dated[j].profit])]]))

ByMonth(fr) == ByMonthOf(SelectSeq(fr, LAMBDA r : r.orderDate.kind # "null"))

\* A quotient n / d of two numbers, kept as the pair; 0 is 0 / 1.
Frac(n, d) == [num |-> n, den |-> d]
Zero == Frac(0, 1)

\* A faulty count: the empty identifier is counted like any other.
OrderCountAll(ids, n) ==
  Let(Cardinality({ids[i] : i \in DOMAIN ids}), LAMBDA size : IF size # 0 THEN size ELSE n)

\* new Set(ids.filter(Boolean)).size || n
OrderCount(ids, n) ==
  Let(Cardinality({ids[i] : i \in {j \in DOMAIN ids : ids[j] # <<>>}}), LAMBDA size :
    IF size # 0 THEN size ELSE n)

\* The ship days of the rows where both dates are set and the difference is
\* a finite number.
ShipDaysArr(fr) ==
  Let(SelectSeq(fr, LAMBDA r : r.orderDate.kind = "date" /\ r.shipDate.kind = "date"),
      LAMBDA both :
        [i \in DOMAIN both |-> DayNumber(both[i].shipDate) - DayNumber(both[i].orderDate)])

\* A faulty mean: the empty array is divided by its length.
MeanUnguarded(s) == Frac(SumSeq(s), Len(s))

Mean(s) == IF Len(s) # 0 THEN Frac(SumSeq(s), Len(s)) ELSE Zero

KpisOf(sales, profit, orders, discounts, shipDaysArr) ==
  [sales |-> sales,
   profit |-> profit,
   orders |-> orders,
   margin |-> IF sales # 0 THEN Frac(profit, sales) ELSE Zero,
   avgDiscount |-> Mean(discounts),
   avgShipDays |-> Mean(shipDaysArr),
   aov |-> IF orders # 0 THEN Frac(sales, orders) ELSE Zero]

Kpis(fr) ==
  KpisOf(SumSeq([i \in DOMAIN fr |-> fr[i].sales]),
         SumSeq([i \in DOMAIN fr |-> fr[i].profit]),
         OrderCount([i \in DOMAIN fr |-> fr[i].orderId], Len(fr)),
         [i \in DOMAIN fr |-> fr[i].discount],
         ShipDaysArr(fr))

ProfitVsBaseMargin(fr) ==
  [i \in DOMAIN fr |-> [x |-> fr[i].baseMargin, y |-> fr[i].profit, cat |-> fr[i].category]]

\* An absent insight (index 0 of an empty array is undefined).
NoEntry == [some |-> FALSE, k |-> <<>>, v |-> 0]
FirstOf(items) == IF Len(items) = 0 THEN NoEntry
                  ELSE [some |-> TRUE, k |-> items[1].k, v |-> items[1].v]

\* sumBy of insights: the key falls back to "Unknown" when it is empty.
sumBy(fr, key, metric) ==
  SortDesc(AccumulateKV([i \in DOMAIN fr |-> OrUnknown(fr[i][key])], Col(fr, metric)))

BestMonth(dated) ==
  FirstOf(SortDesc(AccumulateKV([i \in DOMAIN dated |-> monthKey(dated[i].orderDate)],
                                [i \in DOMAIN dated |-> dated[i].sales])))

Insights(fr, margin) ==
  [topRegion |-> FirstOf(sumBy(fr, "region", "sales")),
   topCategory |-> FirstOf(sumBy(fr, "category", "sales")),
   topSegment |-> FirstOf(sumBy(fr, "segment", "sales")),
   topState |-> FirstOf(sumBy(fr, "state", "sales")),
   bestSubcat |-> FirstOf(sumBy(fr, "subCategory", "profit")),
   bestMonth |-> BestMonth(SelectSeq(fr, LAMBDA r : r.orderDate.kind # "null")),
   overallMargin |-> margin,
   filteredRows |-> Len(fr)]

\* yearBounds: min and max year over the rows with a year, 2010..2016 if none.
DefaultYearFrom == 2010
DefaultYearTo == 2016
YearBoundsOf(rs) ==
  Let({rs[i].orderDate.y : i \in {j \in DOMAIN rs : HasYear(rs[j].orderDate)}}, LAMBDA ys :
    [minY |-> IF ys # {} THEN MinOf(ys) ELSE DefaultYearFrom,
     maxY |-> IF ys # {} THEN MaxOf(ys) ELSE DefaultYearTo])

(* -------------------------- option lists ------------------------------ *)

\* a.localeCompare(b) < 0 for the texts the dataset holds: blanks before
\* digits before letters, letters alphabetically whatever their case, and a
\* lower-case letter before the same letter in upper case when all else ties.
Rank(c) == IF IsWS(c) THEN 0
           ELSE IF IsDigit(c) THEN 2 + DigitVal(c)
           ELSE IF IndexOf(LowerChar(c), LOWER) # 0 THEN 20 + IndexOf(LowerChar(c), LOWER)
           ELSE 1
RECURSIVE RankLess(_, _)
RankLess(a, b) ==
  IF b = <<>> THEN FALSE
  ELSE IF a = <<>> THEN TRUE
  ELSE IF Rank(Head(a)) # Rank(Head(b)) THEN Rank(Head(a)) < Rank(Head(b))
  ELSE RankLess(Tail(a), Tail(b))
RECURSIVE CaseLess(_, _)
CaseLess(a, b) ==
  IF a = <<>> \/ b = <<>> THEN FALSE
  ELSE IF Head(a) # Head(b) THEN IndexOf(Head(a), LOWER) # 0
  ELSE CaseLess(Tail(a), Tail(b))
LocaleLess(a, b) == RankLess(a, b) \/ (~RankLess(b, a) /\ CaseLess(a, b))

RECURSIVE SortLocale(_)
SortLocale(keys) ==
  IF keys = <<>> THEN <<>>
  ELSE Let(SortLocale(SubSeq(keys, 1, Len(keys) - 1)), LAMBDA front :
         InsertAt(front,
                  Cardinality({i \in DOMAIN front : ~LocaleLess(keys[Len(keys)], front[i])}),
                  keys[Len(keys)]))

uniq(arr) == SortLocale(Distinct(SelectSeq(arr, LAMBDA x : x # <<>> /\ trim(x) # <<>>)))

\* Faulty option lists: only the rows with an order date are looked at.
OptionsOfDated(rs) ==
  Let(SelectSeq(rs, LAMBDA r : r.orderDate.kind = "date"), LAMBDA ds :
    [regions    |-> uniq([i \in DOMAIN ds |-> ds[i].region]),
     segments   |-> uniq([i \in DOMAIN ds |-> ds[i].segment]),
     categories |-> uniq([i \in DOMAIN ds |-> ds[i].category]),
     states     |-> uniq([i \in DOMAIN ds |-> ds[i].state]),
     shipModes  |-> uniq([i \in DOMAIN ds |-> ds[i].shipMode])])

OptionsOf(rs) ==
  [regions    |-> uniq([i \in DOMAIN rs |-> rs[i].region]),
   segments   |-> uniq([i \in DOMAIN rs |-> rs[i].segment]),
   categories |-> uniq([i \in DOMAIN rs |-> rs[i].category]),
   states     |-> uniq([i \in DOMAIN rs |-> rs[i].state]),
   shipModes  |-> uniq([i \in DOMAIN rs |-> rs[i].shipMode])]

(* ------------------------------ the page ------------------------------ *)

VARIABLES
  pc,        \* where the load effect's async function stands: "fetch", "text", "done"
  alive,     \* the effect's liveness flag, cleared by its cleanup
  raw, loading, err,
  rawGen,    \* which array raw holds: 0 the initial one, 1 the one setRaw stored
  region, segment, category, stateName, shipMode, yearFrom, yearTo,
  effectLen, \* the rows.length the year-init effect last ran for (its dependency)
  lastUi,    \* history: the kind of the last user event handled, "none", "input" or "reset"
  \* the memoised values of the last render
  rows, yearBounds, options, filtered, kpis, byMonth, bySegment, byCategory,
  byState, profitBySubCategory, salesByRegion, salesByProductContainer,
  profitVsBaseMargin, insights

loadVars == <<pc, alive, raw, rawGen, loading, err>>
filterVars == <<region, segment, category, stateName, shipMode, yearFrom, yearTo>>
memoVars == <<rows, yearBounds, options, filtered, kpis, byMonth, bySegment, byCategory,
              byState, profitBySubCategory, salesByRegion, salesByProductContainer,
              profitVsBaseMargin, insights>>
vars == <<loadVars, filterVars, effectLen, lastUi, memoVars>>

\* The Filter State of the current render.
FilterState ==
  [region |-> region, segment |-> segment, category |-> category, stateName |-> stateName,
   shipMode |-> shipMode, yearFrom |-> yearFrom, yearTo |-> yearTo]

\* A faulty dependency list: shipMode is left out.
FilteredDepsShort(f) ==
  <<f.region, f.segment, f.category, f.stateName, f.yearFrom, f.yearTo>>

\* Dependency list of the filtered memo, apart from rows.
FilteredDeps(f) ==
  <<f.region, f.segment, f.category, f.stateName, f.shipMode, f.yearFrom, f.yearTo>>

\* One render after a state change: every useMemo whose dependencies changed
\* since the previous render is recomputed, the others keep their value.
\* An array dependency changes exactly when the memo that makes it was
\* recomputed; raw changes when setRaw stored a new array.
Render ==
  LET rawNew == rawGen' # rawGen
      fNew == rawNew \/ FilteredDeps(FilterState') # FilteredDeps(FilterState)
  IN  /\ rows' = IF rawNew THEN Normalize(raw') ELSE rows
      /\ yearBounds' = IF rawNew THEN YearBoundsOf(rows') ELSE yearBounds
      /\ options' = IF rawNew THEN OptionsOf(rows') ELSE options
      /\ filtered' = IF fNew THEN FilterRows(rows', FilterState') ELSE filtered
      /\ kpis' = IF fNew THEN Kpis(filtered') ELSE kpis
      /\ byMonth' = IF fNew THEN ByMonth(filtered') ELSE byMonth
      /\ bySegment' = IF fNew THEN BySegment(filtered') ELSE bySegment
      /\ byCategory' = IF fNew THEN ByCategory(filtered') ELSE byCategory
      /\ byState' = IF fNew THEN ByState(filtered') ELSE byState
      /\ profitBySubCategory' = IF fNew THEN ProfitBySubCategory(filtered')
                                ELSE profitBySubCategory
      /\ salesByRegion' = IF fNew THEN SalesByRegion(filtered') ELSE salesByRegion
      /\ salesByProductContainer' = IF fNew THEN SalesByProductContainer(filtered')
                                    ELSE salesByProductContainer
      /\ profitVsBaseMargin' = IF fNew THEN ProfitVsBaseMargin(filtered')
                               ELSE profitVsBaseMargin
      /\ insights' = IF fNew \/ kpis'.margin # kpis.margin
                     THEN Insights(filtered', kpis'.margin) ELSE insights

Init ==
  /\ pc = "fetch" /\ alive = TRUE
  /\ raw = <<>> /\ rawGen = 0 /\ loading = TRUE /\ err = ""
  /\ region = All /\ segment = All /\ category = All /\ stateName = All /\ shipMode = All
  /\ yearFrom = DefaultYearFrom /\ yearTo = DefaultYearTo
  /\ effectLen = 0
  /\ lastUi = "none"
  /\ rows = <<>>
  /\ yearBounds = YearBoundsOf(<<>>)
  /\ options = OptionsOf(<<>>)
  /\ filtered = <<>>
  /\ kpis = Kpis(<<>>)
  /\ byMonth = ByMonth(<<>>)
  /\ bySegment = BySegment(<<>>)
  /\ byCategory = ByCategory(<<>>)
  /\ byState = ByState(<<>>)
  /\ profitBySubCategory = ProfitBySubCategory(<<>>)
  /\ salesByRegion = SalesByRegion(<<>>)
  /\ salesByProductContainer = SalesByProductContainer(<<>>)
  /\ profitVsBaseMargin = ProfitVsBaseMargin(<<>>)
  /\ insights = Insights(<<>>, Zero)

(* ---- the load effect ---- *)

\* if (alive) setRaw(rows)
ApplyRaw(cur, got) == IF alive THEN got ELSE cur
\* A faulty catch: the message is stored as it is, without the fallback text.
ApplyErrMessage(cur, message) == IF alive THEN message ELSE cur
\* if (alive) setErr(e?.message || "Failed to load CSV")
ApplyErr(cur, message) ==
  IF alive THEN (IF message # "" THEN message ELSE "Failed to load CSV") ELSE cur
\* A faulty finally: loading is cleared without looking at alive.
ApplyLoadingAlways(cur) == FALSE
\* if (alive) setLoading(false)
ApplyLoading(cur) == IF alive THEN FALSE ELSE cur

\* Messages of what fetch, res.text() or the parser may throw ("" stands for a
\* thrown value without a message).
ThrownMessages == {"Failed to fetch", ""}
\* Statuses of a response that is not ok.
BadStatuses == {"CSV fetch failed (404)", "CSV fetch failed (500)"}

\* A faulty async function without the finally block: a failure stores the
\* message and leaves loading as it is.
FailsNoFinally(message) ==
  /\ pc' = "done"
  /\ err' = ApplyErr(err, message)
  /\ UNCHANGED <<alive, raw, rawGen, loading, filterVars, effectLen, lastUi>>
  /\ Render

\* catch and finally of the async function
Fails(message) ==
  /\ pc' = "done"
  /\ err' = ApplyErr(err, message)
  /\ loading' = ApplyLoading(loading)
  /\ UNCHANGED <<alive, raw, rawGen, filterVars, effectLen, lastUi>>
  /\ Render

\* fetch resolves with res.ok
FetchOk ==
  /\ pc = "fetch"
  /\ pc' = "text"
  /\ UNCHANGED <<alive, raw, rawGen, loading, err, filterVars, effectLen, lastUi>>
  /\ Render

\* fetch resolves with a response that is not ok: the function throws
FetchNotOk ==
  /\ pc = "fetch"
  /\ \E m \in BadStatuses : Fails(m)

\* fetch rejects
FetchRejects ==
  /\ pc = "fetch"
  /\ \E m \in ThrownMessages : Fails(m)

\* res.text() rejects, or the parser throws
TextFails ==
  /\ pc = "text"
  /\ \E m \in ThrownMessages : Fails(m)

\* res.text() resolves: parse, drop the records with at most one key, store
\* the rows, clear loading; the render that follows schedules the year-init
\* effect when rows.length changed.
TextLoaded ==
  /\ pc = "text"
  /\ \E data \in Datasets :
       /\ raw' = ApplyRaw(raw, KeepRecords(data))
       /\ rawGen' = IF alive THEN 1 ELSE rawGen
       /\ loading' = ApplyLoading(loading)
       /\ pc' = "done"
       /\ UNCHANGED <<alive, err, filterVars, effectLen, lastUi>>
       /\ Render

\* The cleanup of the load effect: the component is unmounted.
Unmount ==
  /\ alive
  /\ alive' = FALSE
  /\ UNCHANGED <<pc, raw, rawGen, loading, err, filterVars, effectLen, lastUi>>
  /\ Render

\* A faulty dependency list of the year-init effect: the years are in it, so
\* the effect is due again whenever they are away from the data bounds.
yearInitDueOnYears ==
  \/ Len(rows) # effectLen
  \/ Len(rows) # 0 /\ (yearFrom # yearBounds.minY \/ yearTo # yearBounds.maxY)

\* The year-init effect is due after a render in which rows.length differs
\* from the length it last ran for.
yearInitDue == Len(rows) # effectLen

\* The year-init effect.
YearInit ==
  /\ alive /\ yearInitDue
  /\ effectLen' = Len(rows)
  /\ IF Len(rows) = 0
     THEN UNCHANGED <<yearFrom, yearTo>>
     ELSE yearFrom' = yearBounds.minY /\ yearTo' = yearBounds.maxY
  /\ UNCHANGED <<loadVars, region, segment, category, stateName, shipMode, lastUi>>
  /\ Render

(* ---- the filter bar and the charts ---- *)

\* The filter bar and the charts are rendered only past the loading and the
\* error returns; pending effects run before the next event is handled.
Shown == alive /\ ~loading /\ err = "" /\ ~yearInitDue

\* Numbers the user may type into a year input.
YearInputs == {2013, 2014, 2015}

Elems(s) == {s[i] : i \in DOMAIN s}

\* How many of the seven filter inputs of f are away from what resetAll sets.
Active(f, yb) ==
  Cardinality({i \in 1..5 : <<f.region, f.segment, f.category, f.stateName, f.shipMode>>[i] # All})
    + (IF f.yearFrom # yb.minY THEN 1 ELSE 0) + (IF f.yearTo # yb.maxY THEN 1 ELSE 0)

\* The user sessions explored: those that keep Active within MaxActive.
Within == Active(FilterState', yearBounds) <= MaxActive

SetRegion ==
  /\ Shown
  /\ \E v \in {All} \cup Elems(options.regions) : region' = v
  /\ lastUi' = "input"
  /\ UNCHANGED <<loadVars, segment, category, stateName, shipMode, yearFrom, yearTo, effectLen>>
  /\ Within
  /\ Render

SetSegment ==
  /\ Shown
  /\ \E v \in {All} \cup Elems(options.segments) : segment' = v
  /\ lastUi' = "input"
  /\ UNCHANGED <<loadVars, region, category, stateName, shipMode, yearFrom, yearTo, effectLen>>
  /\ Within
  /\ Render

SetCategory ==
  /\ Shown
  /\ \E v \in {All} \cup Elems(options.categories) : category' = v
  /\ lastUi' = "input"
  /\ UNCHANGED <<loadVars, region, segment, stateName, shipMode, yearFrom, yearTo, effectLen>>
  /\ Within
  /\ Render

SetStateName ==
  /\ Shown
  /\ \E v \in {All} \cup Elems(options.states) : stateName' = v
  /\ lastUi' = "input"
  /\ UNCHANGED <<loadVars, region, segment, category, shipMode, yearFrom, yearTo, effectLen>>
  /\ Within
  /\ Render

SetShipMode ==
  /\ Shown
  /\ \E v \in {All} \cup Elems(options.shipModes) : shipMode' = v
  /\ lastUi' = "input"
  /\ UNCHANGED <<loadVars, region, segment, category, stateName, yearFrom, yearTo, effectLen>>
  /\ Within
  /\ Render

SetYearFrom ==
  /\ Shown
  /\ \E v \in YearInputs : yearFrom' = v
  /\ lastUi' = "input"
  /\ UNCHANGED <<loadVars, region, segment, category, stateName, shipMode, yearTo, effectLen>>
  /\ Within
  /\ Render

SetYearTo ==
  /\ Shown
  /\ \E v \in YearInputs : yearTo' = v
  /\ lastUi' = "input"
  /\ UNCHANGED <<loadVars, region, segment, category, stateName, shipMode, yearFrom, effectLen>>
  /\ Within
  /\ Render

\* A faulty reset: the years go back to the initial constants of the hooks.
resetAllDefaults ==
  /\ Shown
  /\ region' = All /\ segment' = All /\ category' = All
  /\ stateName' = All /\ shipMode' = All
  /\ yearFrom' = DefaultYearFrom /\ yearTo' = DefaultYearTo
  /\ lastUi' = "reset"
  /\ UNCHANGED <<loadVars, effectLen>>
  /\ Render

resetAll ==
  /\ Shown
  /\ region' = All /\ segment' = All /\ category' = All
  /\ stateName' = All /\ shipMode' = All
  /\ yearFrom' = yearBounds.minY /\ yearTo' = yearBounds.maxY
  /\ lastUi' = "reset"
  /\ UNCHANGED <<loadVars, effectLen>>
  /\ Render

\* What a chart click may report: a label of the chart's series, or nothing
\* (the empty text stands for an event without a point or with an empty label).
ClickLabels(labels) == Elems(labels) \cup {<<>>}

\* onClick of the Sales by Segment chart
ClickSegment ==
  /\ Shown
  /\ \E label \in ClickLabels(bySegment.labels) :
       segment' = IF label # <<>> THEN label ELSE segment
  /\ lastUi' = "input"
  /\ UNCHANGED <<loadVars, region, category, stateName, shipMode, yearFrom, yearTo, effectLen>>
  /\ Within
  /\ Render

\* onClick of the Sales by Category chart
ClickCategory ==
  /\ Shown
  /\ \E label \in ClickLabels(byCategory.labels) :
       category' = IF label # <<>> THEN label ELSE category
  /\ lastUi' = "input"
  /\ UNCHANGED <<loadVars, region, segment, stateName, shipMode, yearFrom, yearTo, effectLen>>
  /\ Within
  /\ Render

\* A faulty handler of the Sales by Region chart: it sets the segment.
ClickRegionIntoSegment ==
  /\ Shown
  /\ \E label \in ClickLabels(salesByRegion.labels) :
       segment' = IF label # <<>> THEN label ELSE segment
  /\ lastUi' = "input"
  /\ UNCHANGED <<loadVars, region, category, stateName, shipMode, yearFrom, yearTo, effectLen>>
  /\ Within
  /\ Render

\* onClick of the Sales by Region chart
ClickRegion ==
  /\ Shown
  /\ \E label \in ClickLabels(salesByRegion.labels) :
       region' = IF label # <<>> THEN label ELSE region
  /\ lastUi' = "input"
  /\ UNCHANGED <<loadVars, segment, category, stateName, shipMode, yearFrom, yearTo, effectLen>>
  /\ Within
  /\ Render

\* Every step is one handler followed by the render it causes.
Next ==
  \/ FetchOk \/ FetchNotOk \/ FetchRejects \/ TextFails \/ TextLoaded
  \/ Unmount \/ YearInit
  \/ SetRegion \/ SetSegment \/ SetCategory \/ SetStateName \/ SetShipMode
  \/ SetYearFrom \/ SetYearTo \/ resetAll
  \/ ClickSegment \/ ClickCategory \/ ClickRegion

Spec == Init /\ [][Next]_vars

\* The fetch, and the reading of its body, complete: one step of the async
\* function of the load effect.
LoadStep == FetchOk \/ FetchNotOk \/ FetchRejects \/ TextFails \/ TextLoaded

\* The page when the pending promise of the load effect always settles.
LiveSpec == Init /\ [][Next]_vars /\ WF_vars(LoadStep)

(* ------------- the coercers over a wider range of records ------------- *)

\* Records in which the state column appears under two of these headers: an
\* alias as listed, an alias in another case, an alias with a trailing blank.
StateKeys == << <<"S","t","a","t","e">>, <<"S","T","A","T","E">>, <<"s","t","a","t","e"," ">>, <<"P","r","o","v","i","n","c","e">>, <<"p","r","o","v","i","n","c","e">> >>
CellTexts == << <<>>, <<" ">>, <<" ","T","X"," ">>, <<"c","a">> >>
AliasRecords ==
  {<< [k |-> StateKeys[q[1]], v |-> CellTexts[q[3]]],
      [k |-> StateKeys[q[2]], v |-> CellTexts[q[4]]] >> :
     q \in {p \in (DOMAIN StateKeys) \X (DOMAIN StateKeys) \X (DOMAIN CellTexts) \X (DOMAIN CellTexts) :
              p[1] # p[2]}}

\* Records over the texts a date column may hold.
DateTexts == { <<>>, <<"2","/","1","0","/","2","0","1","4">>, <<"1","3","/","0","1","/","2","0","1","5">>, <<"0","/","5","/","2","0","1","5">>, <<"1","5","-","0","3","-","2","0","1","5">>,
               <<"1","5","-","0","3","-","1","4">>, <<"1","5",".","0","3",".","2","0","1","5">>, <<"3","-","1","5","-","2","0","1","5">>, <<"2","0","1","5","-","0","3","-","1","5">>,
               <<"a","-","b","-","c">>, <<"h","e","l","l","o">>, <<"n","/","a">> }
DateRecords ==
  {<< [k |-> <<"O","r","d","e","r"," ","D","a","t","e">>, v |-> o], [k |-> <<"S","h","i","p"," ","D","a","t","e">>, v |-> s] >> :
     o \in DateTexts, s \in DateTexts}

\* Records over the texts a number column may hold.
NumberTexts == { <<>>, <<"a","b","c">>, <<"$","1",",","2","3","4",".","5","0">>, <<"1","2","%">>, <<"-","3">>, <<" ","7"," ">>, <<"1",".","5",".","2">>,
                 <<"-">>, <<".","5">>, <<"1"," ","0","0","0">> }
NumberRecords ==
  {<< [k |-> <<"S","a","l","e","s">>, v |-> s], [k |-> <<"d","i","s","c","o","u","n","t">>, v |-> d] >> :
     s \in NumberTexts, d \in NumberTexts}

\* Lines with few fields filled in: the full header with one value, the full
\* header with none, two columns with one value, one column.
Blank(n) == [i \in 1..n |-> <<>>]
SparseRecords ==
  { Rec(<< <<"A","9">> >> \o Blank(14)),
    Rec(Blank(6) \o << <<" ">>, <<"C","o","n","s","u","m","e","r">> >> \o Blank(7)),
    Rec(Blank(15)),
    Rec(<< <<"A","9">>, <<>> >>),
    Rec(<< <<"A","9">> >>) }

\* The parsed.data sequences of this range: one record each, and a short
\* line ahead of a full one.
WideDatasets ==
  {<<r>> : r \in AliasRecords \cup DateRecords \cup NumberRecords \cup SparseRecords}
    \cup {<<Rec(<< <<"n","o","t","e">> >>), Pool[1]>>}

\* res.text() resolves with one of these datasets.
TextLoadedWide ==
  /\ pc = "text"
  /\ \E data \in WideDatasets :
       /\ raw' = ApplyRaw(raw, KeepRecords(data))
       /\ rawGen' = IF alive THEN 1 ELSE rawGen
       /\ loading' = ApplyLoading(loading)
       /\ pc' = "done"
       /\ UNCHANGED <<alive, err, filterVars, effectLen, lastUi>>
       /\ Render

\* The load and the year-init effect over the wider range of records.
NextWide == FetchOk \/ TextLoadedWide \/ YearInit

SpecWide == Init /\ [][NextWide]_vars

(* ------------------- the views over many distinct keys ---------------- *)

\* Datasets of up to MaxLines lines over more sub-categories than the
\* sub-category view keeps and more containers than the container view keeps.
MaxLines == 12
SubCategoryNames == 11
ContainerNames == 9
Amounts == <<5, 3, 9, 1, 7, 3, 8, 2, 6, 4, 10, 3>>

\* String(v) of an integer.
NumText(v) == IF v < 0 THEN <<"-">> \o NatStr(0 - v) ELSE NatStr(v)

\* Line i of the dataset whose amounts start shift places into Amounts.
Line(i, shift) ==
  << [k |-> <<"O","r","d","e","r"," ","D","a","t","e">>, v |-> <<"2","/","1","0","/","2","0","1","4">>],
     [k |-> <<"C","a","t","e","g","o","r","y">>, v |-> IF i % 2 = 1 THEN <<"F","u","r","n","i","t","u","r","e">> ELSE <<"T","e","c","h","n","o","l","o","g","y">>],
     [k |-> <<"S","u","b","-","C","a","t","e","g","o","r","y">>, v |-> <<"S">> \o NatStr(((i - 1) % SubCategoryNames) + 1)],
     [k |-> <<"P","r","o","d","u","c","t"," ","C","o","n","t","a","i","n","e","r">>, v |-> <<"K">> \o NatStr(((i - 1) % ContainerNames) + 1)],
     [k |-> <<"S","a","l","e","s">>, v |-> NumText(Amounts[((i + shift - 1) % Len(Amounts)) + 1])],
     [k |-> <<"P","r","o","f","i","t">>, v |-> NumText(Amounts[((i + shift + 4) % Len(Amounts)) + 1] - 4)] >>

LongDatasets ==
  {[i \in 1..n |-> Line(i, shift)] : n \in 7..MaxLines, shift \in 0..(Len(Amounts) - 1)}

\* res.text() resolves with one of these datasets.
TextLoadedLong ==
  /\ pc = "text"
  /\ \E data \in LongDatasets :
       /\ raw' = ApplyRaw(raw, KeepRecords(data))
       /\ rawGen' = IF alive THEN 1 ELSE rawGen
       /\ loading' = ApplyLoading(loading)
       /\ pc' = "done"
       /\ UNCHANGED <<alive, err, filterVars, effectLen, lastUi>>
       /\ Render

\* The load, the year-init effect and the category selector over them.
NextTop == FetchOk \/ TextLoadedLong \/ YearInit \/ SetCategory

SpecTop == Init /\ [][NextTop]_vars

(* ------------------------------ properties ---------------------------- *)

Dated(r) == r.orderDate.kind = "date"
SalesOfRows(rs) == SumSeq([i \in DOMAIN rs |-> rs[i].sales])
ProfitOfRows(rs) == SumSeq([i \in DOMAIN rs |-> rs[i].profit])

\* The filter contract as the specification words it, over the current
\* Filter State.
Admitted(r) ==
  /\ Dated(r)
  /\ Min2(yearFrom, yearTo) <= r.orderDate.y
  /\ r.orderDate.y <= Max2(yearFrom, yearTo)
  /\ region = All \/ r.region = region
  /\ segment = All \/ r.segment = segment
  /\ category = All \/ r.category = category
  /\ stateName = All \/ r.state = stateName
  /\ shipMode = All \/ r.shipMode = shipMode

\* C1: a row is in the filtered collection if and only if its order date has
\* a year within min(yearFrom, yearTo)..max(yearFrom, yearTo) and every
\* selector is "All" or equals the row's field; the filtered collection is
\* the same with yearFrom and yearTo swapped; and no row without a parsed
\* order date is in it.
C1_FilterContract ==
  /\ filtered = SelectSeq(rows, Admitted)
  /\ filtered = FilterRows(rows, [FilterState EXCEPT !.yearFrom = yearTo, !.yearTo = yearFrom])
  /\ \A i \in DOMAIN filtered : filtered[i].orderDate.kind # "null"

\* C1 witness: the years are given in descending order, a selector is set, a
\* row passes, a dated row does not, and a row without an order date is held.
C1_Witness ==
  /\ yearFrom > yearTo /\ region # All
  /\ Len(filtered) > 0
  /\ \E i \in DOMAIN rows : Dated(rows[i]) /\ ~Admitted(rows[i])
  /\ \E i \in DOMAIN rows : rows[i].orderDate.kind = "null"

\* The data bounds of the full dataset, stated over the rows: the least and
\* the greatest order-date year, 2010 and 2016 when no row has one.
DatedYears == {rows[i].orderDate.y : i \in {j \in DOMAIN rows : Dated(rows[j])}}
AtReset ==
  /\ region = All /\ segment = All /\ category = All /\ stateName = All /\ shipMode = All
  /\ IF DatedYears = {} THEN yearFrom = DefaultYearFrom /\ yearTo = DefaultYearTo
     ELSE /\ yearFrom \in DatedYears /\ \A y \in DatedYears : yearFrom <= y
          /\ yearTo \in DatedYears /\ \A y \in DatedYears : y <= yearTo

\* C2: every step of resetAll, whatever the Filter State it starts from, ends
\* with the five selectors "All" and the years at the least and greatest
\* order-date year of the full dataset, which is also where the year-init
\* step that follows the load leaves the Filter State.
C2_ResetRestores == [][(resetAll => AtReset') /\ (YearInit => AtReset')]_vars

\* C2 witness: reset was the last user event, on a dataset whose rows span
\* several years, none of them a year the hooks start with.
C2_Witness ==
  /\ lastUi = "reset" /\ AtReset
  /\ Cardinality(DatedYears) > 1
  /\ yearFrom # DefaultYearFrom /\ yearTo # DefaultYearTo

\* C3: once the cleanup has run (alive is false) no step changes raw, err or
\* loading, whether the fetch then completes with data or fails.
C3_StaleFetchWritesNothing == [][~alive => UNCHANGED <<raw, err, loading>>]_vars

\* C3 witness: the fetch has completed after the cleanup, and the state is
\* still the one before the fetch.
C3_Witness == ~alive /\ pc = "done" /\ loading /\ raw = <<>> /\ err = ""

\* C4: a non-empty error means the load has ended with no rows and loading
\* cleared; a load that ended while mounted (loading cleared) either stored
\* its rows and left the error empty, or stored nothing and left a non-empty
\* error.
C4_ErrorState ==
  /\ err # "" => pc = "done" /\ ~loading /\ raw = <<>> /\ rows = <<>> /\ filtered = <<>>
  /\ ~loading => pc = "done" /\ (err # "" <=> rawGen = 0)
  /\ rawGen = 1 => err = ""

\* C4 witness: the load failed while mounted.
C4_Witness == alive /\ pc = "done" /\ ~loading /\ err # "" /\ raw = <<>>

\* C5: every memoised view equals the view computed afresh from the rows and
\* the current Filter State, and the total-sales KPI is the sum of the sales
\* of the rows the filter admits.
C5_ViewsAreFresh ==
  /\ filtered = FilterRows(rows, FilterState)
  /\ kpis = Kpis(FilterRows(rows, FilterState))
  /\ byMonth = ByMonth(FilterRows(rows, FilterState))
  /\ bySegment = BySegment(FilterRows(rows, FilterState))
  /\ byCategory = ByCategory(FilterRows(rows, FilterState))
  /\ byState = ByState(FilterRows(rows, FilterState))
  /\ profitBySubCategory = ProfitBySubCategory(FilterRows(rows, FilterState))
  /\ salesByRegion = SalesByRegion(FilterRows(rows, FilterState))
  /\ salesByProductContainer = SalesByProductContainer(FilterRows(rows, FilterState))
  /\ profitVsBaseMargin = ProfitVsBaseMargin(FilterRows(rows, FilterState))
  /\ insights = Insights(FilterRows(rows, FilterState), Kpis(FilterRows(rows, FilterState)).margin)
  /\ kpis.sales = SalesOfRows(SelectSeq(rows, Admitted))

\* C5 witness: three rows of two categories are held, the category selector is
\* set to one of them after a user event, and a row of the other category is
\* left out of the views.
C5_Witness ==
  /\ lastUi = "input" /\ category # All
  /\ Len(rows) = 3 /\ Len(filtered) > 0
  /\ \E i \in DOMAIN rows : Dated(rows[i]) /\ rows[i].category # category
  /\ kpis.sales = SalesOfRows(filtered) /\ kpis.sales < SalesOfRows(rows)

\* The five selectors alone admit r.
Selected(r) ==
  /\ region = All \/ r.region = region
  /\ segment = All \/ r.segment = segment
  /\ category = All \/ r.category = category
  /\ stateName = All \/ r.state = stateName
  /\ shipMode = All \/ r.shipMode = shipMode

Undated(r) == r.orderDate.kind = "null"

\* The sum of the sales of the rows rs whose field is k.
SalesWhere(rs, field, k) ==
  SumSeq([i \in DOMAIN rs |-> IF rs[i][field] = k THEN rs[i].sales ELSE 0])

\* Every key of a row of rs that is undated and selected has an entry in the
\* view, whose value is the sales of the rows of rs with that key.
CountsUndated(view, field, rs) ==
  \A i \in DOMAIN rs :
    Undated(rs[i]) /\ Selected(rs[i]) =>
      \E j \in DOMAIN view.labels :
        /\ view.labels[j] = rs[i][field]
        /\ view.values[j] = SalesWhere(rs, field, rs[i][field])

\* C6 as stated: a row without a parsed order date that the selectors admit
\* still adds its sales to the sums by segment, by category and by region
\* (taken with the rows the filter admits).
C6_UndatedRowsCounted ==
  /\ CountsUndated(bySegment, "segment", SelectSeq(rows, LAMBDA r : Admitted(r) \/ (Undated(r) /\ Selected(r))))
  /\ CountsUndated(byCategory, "category", SelectSeq(rows, LAMBDA r : Admitted(r) \/ (Undated(r) /\ Selected(r))))
  /\ CountsUndated(salesByRegion, "region", SelectSeq(rows, LAMBDA r : Admitted(r) \/ (Undated(r) /\ Selected(r))))

\* The ship days of the rows of rs that have a ship date.
ShipDaysOf(rs) == [i \in DOMAIN rs |-> DayNumber(rs[i].shipDate) - DayNumber(rs[i].orderDate)]

\* C6 amended: a row without a parsed order date adds to no aggregate: the
\* sums by segment, category and region, the monthly series and the KPIs
\* total the rows that have an order-date year in range and that the
\* selectors admit.  A row with an order date and no ship date is among
\* those; it is left out of the mean ship days only.
C6_UndatedRowsLeftOut ==
  /\ \A i \in DOMAIN filtered : ~Undated(filtered[i])
  /\ SumSeq(bySegment.values) = SalesOfRows(SelectSeq(rows, Admitted))
  /\ SumSeq(byCategory.values) = SalesOfRows(SelectSeq(rows, Admitted))
  /\ SumSeq(salesByRegion.values) = SalesOfRows(SelectSeq(rows, Admitted))
  /\ SumSeq(byMonth.sales) = SalesOfRows(SelectSeq(rows, Admitted))
  /\ kpis.sales = SalesOfRows(SelectSeq(rows, Admitted))
  /\ kpis.avgShipDays =
       Mean(ShipDaysOf(SelectSeq(rows, LAMBDA r : Admitted(r) /\ r.shipDate.kind = "date")))

\* C6 witness: the selectors admit an undated row, and the filtered rows
\* include one that has no ship date and one that has.
C6_Witness ==
  /\ \E i \in DOMAIN rows : Undated(rows[i]) /\ Selected(rows[i])
  /\ \E i \in DOMAIN filtered : filtered[i].shipDate.kind # "date"
  /\ \E i \in DOMAIN filtered : filtered[i].shipDate.kind = "date"

\* The code of a state text as the specification words it.
StateCode(s) ==
  IF Len(trim(s)) = 2 THEN toUpperCase(trim(s))
  ELSE IF \E i \in DOMAIN STATE_TO_ABBR : STATE_TO_ABBR[i][1] = toUpperCase(trim(s))
    THEN STATE_TO_ABBR[CHOOSE i \in DOMAIN STATE_TO_ABBR :
                         STATE_TO_ABBR[i][1] = toUpperCase(trim(s))][2]
  ELSE <<>>

FilteredCodes == {StateCode(filtered[i].state) : i \in DOMAIN filtered} \ {<<>>}

\* C7: the state series has one entry per non-empty code of the filtered
\* rows, with the sales and the profit of the rows of that code; a filtered
\* row without a code is in no entry, and is still in the KPIs and in the sums
\* by segment, category and region.
C7_StateSeries ==
  /\ Len(byState.sales) = Len(byState.abbr) /\ Len(byState.profit) = Len(byState.abbr)
  /\ Len(byState.abbr) = Cardinality(FilteredCodes)
  /\ \A j \in DOMAIN byState.abbr :
       /\ byState.abbr[j] \in FilteredCodes
       /\ byState.sales[j] =
            SalesOfRows(SelectSeq(filtered, LAMBDA r : StateCode(r.state) = byState.abbr[j]))
       /\ byState.profit[j] =
            ProfitOfRows(SelectSeq(filtered, LAMBDA r : StateCode(r.state) = byState.abbr[j]))
  /\ \A c \in FilteredCodes : \E j \in DOMAIN byState.abbr : byState.abbr[j] = c
  /\ kpis.sales = SalesOfRows(filtered) /\ kpis.profit = ProfitOfRows(filtered)
  /\ SumSeq(bySegment.values) = SalesOfRows(filtered)
  /\ SumSeq(byCategory.values) = SalesOfRows(filtered)
  /\ SumSeq(salesByRegion.values) = SalesOfRows(filtered)

\* C7 witness: two filtered rows with different state texts share a code, and
\* a third filtered row has none.
C7_Witness ==
  /\ \E i, j \in DOMAIN filtered :
       /\ filtered[i].state # filtered[j].state
       /\ StateCode(filtered[i].state) = StateCode(filtered[j].state)
       /\ StateCode(filtered[i].state) # <<>>
  /\ \E i \in DOMAIN filtered : StateCode(filtered[i].state) = <<>>
  /\ SumSeq(byState.sales) < kpis.sales

\* Index of the first row of the filtered collection whose field is k.
FirstRow(field, k) ==
  CHOOSE i \in DOMAIN filtered :
    filtered[i][field] = k /\ \A j \in 1..(i - 1) : filtered[j][field] # k

\* The grouped sum the specification describes, for a view and its field.
GroupedSum(view, field) ==
  /\ Len(view.values) = Len(view.labels)
  /\ Len(view.labels) = Cardinality({filtered[i][field] : i \in DOMAIN filtered})
  /\ \A i \in DOMAIN filtered : \E j \in DOMAIN view.labels : view.labels[j] = filtered[i][field]
  /\ \A j \in DOMAIN view.labels :
       /\ \E i \in DOMAIN filtered : filtered[i][field] = view.labels[j]
       /\ view.values[j] = SalesWhere(filtered, field, view.labels[j])
  /\ SumSeq(view.values) = kpis.sales
  /\ \A j, k \in DOMAIN view.labels :
       j < k => \/ view.values[j] > view.values[k]
                \/ /\ view.values[j] = view.values[k]
                   /\ FirstRow(field, view.labels[j]) < FirstRow(field, view.labels[k])

\* C8: the sums by segment, by category and by region have one pair per
\* distinct value of the field among the filtered rows, each value the sum of
\* the sales of the rows with that key, the values adding up to the
\* total-sales KPI, in non-increasing order of value, equal values in order
\* of first occurrence.
C8_GroupedSums ==
  /\ GroupedSum(bySegment, "segment")
  /\ GroupedSum(byCategory, "category")
  /\ GroupedSum(salesByRegion, "region")

\* C8 witness: the sum by region holds two equal values, and the sum by
\* category starts with a key that is not the first row's.
C8_Witness ==
  /\ Len(salesByRegion.values) > 2
  /\ salesByRegion.values[1] = salesByRegion.values[2]
  /\ byCategory.labels[1] # filtered[1].category
  /\ byCategory.values[1] > byCategory.values[2]

\* The month of a dated row, as a number that grows with time.
MonthNumber(r) == 12 * r.orderDate.y + r.orderDate.m

\* C9 as stated: the monthly series has one bucket per month key of the
\* filtered rows, the keys strictly ascending, ascending key order being
\* chronological order, the three sequences of equal length, and each bucket
\* the sums of sales and profit of the rows of its month.
C9_MonthlySeries ==
  /\ Len(byMonth.sales) = Len(byMonth.x) /\ Len(byMonth.profit) = Len(byMonth.x)
  /\ \A i \in DOMAIN filtered : \E j \in DOMAIN byMonth.x : byMonth.x[j] = monthKey(filtered[i].orderDate)
  /\ \A j \in DOMAIN byMonth.x :
       /\ \E i \in DOMAIN filtered : byMonth.x[j] = monthKey(filtered[i].orderDate)
       /\ byMonth.sales[j] =
            SalesOfRows(SelectSeq(filtered, LAMBDA r : monthKey(r.orderDate) = byMonth.x[j]))
       /\ byMonth.profit[j] =
            ProfitOfRows(SelectSeq(filtered, LAMBDA r : monthKey(r.orderDate) = byMonth.x[j]))
  /\ \A j, k \in DOMAIN byMonth.x : j < k => StrLess(byMonth.x[j], byMonth.x[k])
  /\ \A j, k \in DOMAIN byMonth.x : j < k =>
       \A a, b \in DOMAIN filtered :
         /\ monthKey(filtered[a].orderDate) = byMonth.x[j]
         /\ monthKey(filtered[b].orderDate) = byMonth.x[k]
         => MonthNumber(filtered[a]) < MonthNumber(filtered[b])

FilteredIds == {filtered[i].orderId : i \in DOMAIN filtered} \ {<<>>}

\* C10: the order count is the number of distinct non-empty order identifiers
\* of the filtered rows, and the number of filtered rows when there is none;
\* it is 0 exactly when no row is filtered, and never above the number of
\* filtered rows.
C10_OrderCount ==
  /\ kpis.orders = IF FilteredIds # {} THEN Cardinality(FilteredIds) ELSE Len(filtered)
  /\ kpis.orders = 0 <=> Len(filtered) = 0
  /\ kpis.orders <= Len(filtered)

\* C10 witness: two filtered rows share an identifier and a third has none,
\* so the count is below the number of rows.
C10_Witness ==
  /\ \E i, j \in DOMAIN filtered : i # j /\ filtered[i].orderId = filtered[j].orderId
                                   /\ filtered[i].orderId # <<>>
  /\ \E i \in DOMAIN filtered : filtered[i].orderId = <<>>
  /\ kpis.orders = 1 /\ Len(filtered) = 3

\* The rows with a parsed order date and a parsed ship date: the rows the
\* mean ship days is taken over.
BothDates(r) == r.orderDate.kind = "date" /\ r.shipDate.kind = "date"

\* C11: no KPI divides by zero.  The margin is 0 when the total sales is 0
\* and profit / sales otherwise; the mean discount is 0 when no row is
\* filtered; the mean ship days is the mean over the filtered rows that have
\* both dates and 0 when there is none; the average order value is 0 when
\* the order count is 0 and sales / orders otherwise; and the seven KPIs are
\* all 0 when no row is filtered.
C11_KpiGuards ==
  /\ kpis.sales = SalesOfRows(filtered) /\ kpis.profit = ProfitOfRows(filtered)
  /\ kpis.margin = IF kpis.sales = 0 THEN Zero ELSE Frac(kpis.profit, kpis.sales)
  /\ kpis.avgDiscount = IF filtered = <<>> THEN Zero
                        ELSE Frac(SumSeq(Col(filtered, "discount")), Len(filtered))
  /\ kpis.avgShipDays = IF SelectSeq(filtered, BothDates) = <<>> THEN Zero
                        ELSE Frac(SumSeq(ShipDaysOf(SelectSeq(filtered, BothDates))),
                                  Len(SelectSeq(filtered, BothDates)))
  /\ kpis.aov = IF kpis.orders = 0 THEN Zero ELSE Frac(kpis.sales, kpis.orders)
  /\ kpis.margin.den # 0 /\ kpis.avgDiscount.den # 0
  /\ kpis.avgShipDays.den # 0 /\ kpis.aov.den # 0
  /\ filtered = <<>> =>
       kpis = [sales |-> 0, profit |-> 0, orders |-> 0, margin |-> Zero,
               avgDiscount |-> Zero, avgShipDays |-> Zero, aov |-> Zero]

\* C11 witness: rows are filtered, their sales total 0 while their profit
\* does not, and none of them has both dates: the margin and the mean ship
\* days are the guarded 0 and the mean discount is a quotient.
C11_Witness ==
  /\ Len(filtered) > 0 /\ lastUi = "input"
  /\ kpis.sales = 0 /\ kpis.profit # 0 /\ kpis.margin = Zero
  /\ kpis.avgShipDays = Zero /\ kpis.orders > 0
  /\ \E i \in DOMAIN rows : BothDates(rows[i])

\* The first entry of a chart series as an insight, absent for an empty one.
TopEntry(view) ==
  IF view.labels = <<>> THEN NoEntry
  ELSE [some |-> TRUE, k |-> view.labels[1], v |-> view.values[1]]

\* The insights other than the top state, against the views they summarise.
InsightsOfViews ==
  /\ insights.topRegion = TopEntry(salesByRegion)
  /\ insights.topCategory = TopEntry(byCategory)
  /\ insights.topSegment = TopEntry(bySegment)
  /\ insights.bestSubcat = TopEntry(profitBySubCategory)
  /\ insights.bestMonth.some <=> byMonth.x # <<>>
  /\ insights.bestMonth.some =>
       /\ \E i \in DOMAIN byMonth.x : /\ byMonth.x[i] = insights.bestMonth.k
                                      /\ byMonth.sales[i] = insights.bestMonth.v
       /\ \A j \in DOMAIN byMonth.x : byMonth.sales[j] <= insights.bestMonth.v
  /\ filtered = <<>> =>
       /\ insights.topRegion = NoEntry /\ insights.topCategory = NoEntry
       /\ insights.topSegment = NoEntry /\ insights.topState = NoEntry
       /\ insights.bestSubcat = NoEntry /\ insights.bestMonth = NoEntry

\* C12: each insight is the first entry of the corresponding descending
\* grouped sum over the filtered rows: the top region, category and segment
\* have the label and value of the first entry of their chart series, the
\* top state is the first entry of the sales grouped by the state text as
\* the rows store it, the best sub-category is the first entry of profit by
\* sub-category, the best month is a month of highest sales in the monthly
\* series, and every insight is absent when no row is filtered.
C12_Insights ==
  /\ InsightsOfViews
  /\ insights.topState = FirstOf(SortDesc(Accumulate(filtered, "state", "sales")))

\* Field resolution as the specification words it.  A key matches an alias
\* exactly, or when both are equal once lower-cased and trimmed; a value is
\* found when it is non-blank.
StateAliases == << <<"S","t","a","t","e"," ","o","r"," ","P","r","o","v","i","n","c","e">>, <<"s","t","a","t","e"," ","o","r"," ","p","r","o","v","i","n","c","e">>, <<"S","t","a","t","e">>,
                   <<"S","t","a","t","e","/","P","r","o","v","i","n","c","e">>, <<"P","r","o","v","i","n","c","e">> >>
Folded(t) == trim(toLowerCase(t))
ExactCells(r, alias) == {j \in DOMAIN r : r[j].k = alias /\ trim(r[j].v) # <<>>}
FoldedCells(r, alias) == {j \in DOMAIN r : Folded(r[j].k) = Folded(alias) /\ trim(r[j].v) # <<>>}
FirstAlias(r, keys, exact) ==
  MinOf({i \in DOMAIN keys : (IF exact THEN ExactCells(r, keys[i]) ELSE FoldedCells(r, keys[i])) # {}})
\* The texts the resolution may return: the value under the first alias found
\* exactly, else under the first alias found with case and blanks ignored
\* (any of the keys that match it), else the empty text.
Resolutions(r, keys) ==
  IF \E i \in DOMAIN keys : ExactCells(r, keys[i]) # {}
  THEN {trim(r[j].v) : j \in ExactCells(r, keys[FirstAlias(r, keys, TRUE)])}
  ELSE IF \E i \in DOMAIN keys : FoldedCells(r, keys[i]) # {}
  THEN {trim(r[j].v) : j \in FoldedCells(r, keys[FirstAlias(r, keys, FALSE)])}
  ELSE {<<>>}

\* Two keys of the record are equal once lower-cased and trimmed.
KeysCollide(r) == \E i, j \in DOMAIN r : i # j /\ Folded(r[i].k) = Folded(r[j].k)

\* The resolution of the state column in every record without such keys.
ResolvedApart ==
  \A i \in DOMAIN rows : ~KeysCollide(raw[i]) =>
    /\ rows[i].state \in Resolutions(raw[i], StateAliases)
    /\ rows[i].state = trim(rows[i].state)

\* C13: field resolution returns the trimmed value under the first alias
\* whose exactly equal key holds a non-blank value, else under the first
\* alias that equals a key of the record with case and surrounding blanks
\* ignored and whose value is non-blank; it returns the empty text only when
\* no key matching an alias either way holds a non-blank value, and never a
\* blank or untrimmed text.
C13_FieldResolution ==
  \A i \in DOMAIN rows :
    /\ rows[i].state \in Resolutions(raw[i], StateAliases)
    /\ rows[i].state = trim(rows[i].state)
    /\ rows[i].state = <<>> =>
         \A a \in DOMAIN StateAliases : FoldedCells(raw[i], StateAliases[a]) = {}

\* C14: date coercion returns null or a valid calendar date, never an
\* invalid date value: the order date and the ship date of every canonical
\* row are null or a valid date.
C14_DatesNullOrValid ==
  \A i \in DOMAIN rows :
    /\ rows[i].orderDate.kind \in {"null", "date"}
    /\ rows[i].shipDate.kind \in {"null", "date"}

\* The trimmed text of a column of a raw record held under exactly that key.
TextOf(r, key) == IF HasKey(r, key) THEN trim(Get(r, key)) ELSE <<>>

\* The text splits at sep into three parts that are all digits.
Digits3(t, sep) ==
  Len(split(t, sep)) = 3 /\ \A i \in 1..3 : split(t, sep)[i] # <<>> /\ AllDigits(split(t, sep)[i])
Comp(t, sep, i) == DigitsVal(split(t, sep)[i])
CalendarDate(y, m, d) == [kind |-> "date", y |-> y, m |-> m, d |-> d]

\* The date of a text with three numeric components under the dash-or-dot
\* rule as worded: day first when the first component exceeds 12.
ByMagnitude(t, sep) ==
  IF Comp(t, sep, 1) > 12
  THEN CalendarDate(Comp(t, sep, 3), Comp(t, sep, 2), Comp(t, sep, 1))
  ELSE CalendarDate(Comp(t, sep, 3), Comp(t, sep, 1), Comp(t, sep, 2))

\* The rule order as worded, for a text t coerced to dt: general parsing
\* decides when it gives a valid date; else the slash rule with month, day
\* and year the first, second and third component; else the dash-or-dot rule.
DecidedInOrder(t, dt) ==
  IF t = <<>> THEN TRUE
  ELSE IF NewDate(t).kind = "date" THEN dt = NewDate(t)
  ELSE IF /\ includes(t, "/") /\ Digits3(t, "/")
          /\ \A i \in 1..3 : Comp(t, "/", i) # 0
    THEN dt = CalendarDate(Comp(t, "/", 3), Comp(t, "/", 1), Comp(t, "/", 2))
  ELSE IF includes(t, "-") /\ Digits3(t, "-") THEN dt = ByMagnitude(t, "-")
  ELSE IF ~includes(t, "-") /\ includes(t, ".") /\ Digits3(t, ".") THEN dt = ByMagnitude(t, ".")
  ELSE TRUE

\* The same, left open for the texts whose components are no calendar date
\* of a year from 100 on.
DecidedInRange(t, dt) ==
  \/ DecidedInOrder(t, dt)
  \/ /\ NewDate(t).kind # "date"
     /\ \E sep \in {"/", "-", "."} :
          /\ Digits3(t, sep)
          /\ \/ Comp(t, sep, 3) < 100
             \/ Comp(t, sep, 1) > 12 /\ (sep = "/" \/ Comp(t, sep, 2) > 12)
             \/ Comp(t, sep, 1) > 31 \/ Comp(t, sep, 2) > 31

\* The rule order over the valid dates and the components in range.
RuleOrderInRange ==
  \A i \in DOMAIN rows :
    /\ DecidedInRange(TextOf(raw[i], <<"O","r","d","e","r"," ","D","a","t","e">>), rows[i].orderDate)
    /\ DecidedInRange(TextOf(raw[i], <<"S","h","i","p"," ","D","a","t","e">>), rows[i].shipDate)

\* C15: date coercion tries its rules in a fixed order and the first that
\* succeeds decides the result: general parsing; then for slash-delimited
\* text month, day and year are the first, second and third component,
\* month and day non-zero; then for dash- or dot-delimited text of three
\* parts the first component is the day when it exceeds 12 and the month
\* otherwise, the third always the year.
C15_RuleOrder ==
  \A i \in DOMAIN rows :
    /\ DecidedInOrder(TextOf(raw[i], <<"O","r","d","e","r"," ","D","a","t","e">>), rows[i].orderDate)
    /\ DecidedInOrder(TextOf(raw[i], <<"S","h","i","p"," ","D","a","t","e">>), rows[i].shipDate)

\* The numbers, in hundredths, that the number texts stand for once "$",
\* ",", "%" and blanks are removed; 0 for a text that is no number.
NumberOfText ==
  ( <<>> :> 0 ) @@ ( <<"a","b","c">> :> 0 ) @@ ( <<"$","1",",","2","3","4",".","5","0">> :> 123450 ) @@ ( <<"1","2","%">> :> 1200 )
  @@ ( <<"-","3">> :> -300 ) @@ ( <<" ","7"," ">> :> 700 ) @@ ( <<"1",".","5",".","2">> :> 0 ) @@ ( <<"-">> :> 0 )
  @@ ( <<".","5">> :> 50 ) @@ ( <<"1"," ","0","0","0">> :> 100000 )

\* No key of the record is one of the names once lower-cased and trimmed, or
\* the value under every such key is blank.
Absent(r, names) == \A j \in DOMAIN r : Folded(r[j].k) \in names => trim(r[j].v) = <<>>

TextFields == {"region", "segment", "category", "subCategory", "shipMode",
               "productContainer", "productName"}
NumberFields == {"sales", "profit", "discount", "baseMargin"}

\* C16: every canonical row made of a raw record is fully defined: sales,
\* profit, discount and baseMargin are numbers, 0 when the field is absent or
\* is no number once "$", ",", "%" and blanks are removed; region, segment,
\* category, subCategory, shipMode, productContainer and productName are
\* non-empty, "Unknown" when the field is absent; the state and the
\* identifier are the resolved text, which may be empty.
C16_RowsFullyDefined ==
  /\ Len(rows) = Len(raw)
  /\ \A i \in DOMAIN rows :
       /\ \A f \in NumberFields : rows[i][f] \in Int
       /\ \A f \in TextFields : rows[i][f] # <<>> /\ rows[i][f] = trim(rows[i][f])
       /\ HasKey(raw[i], <<"S","a","l","e","s">>) /\ Get(raw[i], <<"S","a","l","e","s">>) \in DOMAIN NumberOfText
            => rows[i].sales = NumberOfText[Get(raw[i], <<"S","a","l","e","s">>)]
       /\ HasKey(raw[i], <<"d","i","s","c","o","u","n","t">>) /\ Get(raw[i], <<"d","i","s","c","o","u","n","t">>) \in DOMAIN NumberOfText
            => rows[i].discount = NumberOfText[Get(raw[i], <<"d","i","s","c","o","u","n","t">>)]
       /\ Absent(raw[i], { <<"s","a","l","e","s">>, <<"t","o","t","a","l"," ","s","a","l","e","s">>, <<"t","o","t","a","l","_","s","a","l","e","s">> }) => rows[i].sales = 0
       /\ Absent(raw[i], { <<"p","r","o","f","i","t">>, <<"t","o","t","a","l"," ","p","r","o","f","i","t">>, <<"t","o","t","a","l","_","p","r","o","f","i","t">> }) => rows[i].profit = 0
       /\ Absent(raw[i], { <<"r","e","g","i","o","n">> }) => rows[i].region = Unknown
       /\ Absent(raw[i], { <<"c","a","t","e","g","o","r","y">> }) => rows[i].category = Unknown
       /\ Absent(raw[i], { <<"s","h","i","p"," ","m","o","d","e">>, <<"s","h","i","p","m","o","d","e">> }) => rows[i].shipMode = Unknown
       /\ rows[i].state = trim(rows[i].state) /\ rows[i].orderId = trim(rows[i].orderId)
       /\ Absent(raw[i], { <<"s","t","a","t","e"," ","o","r"," ","p","r","o","v","i","n","c","e">>, <<"s","t","a","t","e">>, <<"s","t","a","t","e","/","p","r","o","v","i","n","c","e">>, <<"p","r","o","v","i","n","c","e">> })
            => rows[i].state = <<>>
       /\ Absent(raw[i], { <<"o","r","d","e","r"," ","i","d">>, <<"o","r","d","e","r","i","d">>, <<"o","r","d","e","r","_","i","d">> }) => rows[i].orderId = <<>>

\* C16 witness: a row made of a record whose sales text carries "$" and ","
\* and whose discount text is no number, with no text column at all.
C16_Witness ==
  /\ Len(rows) = 1 /\ Len(raw[1]) = 2
  /\ HasKey(raw[1], <<"S","a","l","e","s">>) /\ Get(raw[1], <<"S","a","l","e","s">>) = <<"$","1",",","2","3","4",".","5","0">>
  /\ HasKey(raw[1], <<"d","i","s","c","o","u","n","t">>) /\ Get(raw[1], <<"d","i","s","c","o","u","n","t">>) = <<"a","b","c">>
  /\ rows[1].sales = 123450 /\ rows[1].discount = 0 /\ rows[1].profit = 0
  /\ rows[1].region = Unknown /\ rows[1].state = <<>> /\ rows[1].orderId = <<>>
  /\ rows[1].orderDate.kind = "null"

\* The keys of a raw record that hold a non-empty value.
Populated(r) == {j \in DOMAIN r : r[j].v # <<>>}

\* C17: every raw record that reaches the row normalizer has more than one
\* populated key; a record with at most one non-empty value is discarded at
\* the ingestion boundary and gives no canonical row.
C17_PopulatedRecords ==
  \A i \in DOMAIN raw : Cardinality(Populated(raw[i])) > 1

\* An option list against a field of the rows: its members are the distinct
\* non-blank values of the field over all rows, each once, in ascending
\* order of localeCompare.
IsOptionList(list, field) ==
  /\ Elems(list) = {rows[i][field] : i \in DOMAIN rows} \ {t \in Elems(Col(rows, field)) : trim(t) = <<>>}
  /\ \A a, b \in DOMAIN list : a < b => list[a] # list[b] /\ LocaleLess(list[a], list[b])

OptionsOfAllRows ==
  /\ IsOptionList(options.regions, "region")
  /\ IsOptionList(options.segments, "segment")
  /\ IsOptionList(options.categories, "category")
  /\ IsOptionList(options.states, "state")
  /\ IsOptionList(options.shipModes, "shipMode")

\* C18: each selector's option list is the set of distinct non-blank values
\* of its field over all canonical rows, the rows the filter leaves out and
\* the rows without an order date included, ascending and without
\* duplicates; and no step that leaves the raw rows alone (a filter input, a
\* chart click, a reset) changes an option list.
C18_OptionLists == []OptionsOfAllRows /\ [][raw' = raw => options' = options]_vars

\* C18 witness: after a filter input the filtered rows are fewer than the
\* rows, and the state list still offers the state of a row without an
\* order date and the state of a dated row the filter leaves out.
C18_Witness ==
  /\ lastUi = "input" /\ Len(rows) = 3 /\ Len(filtered) = 1
  /\ \E i \in DOMAIN rows : /\ rows[i].orderDate.kind = "null"
                            /\ rows[i].state \in Elems(options.states)
  /\ \E i \in DOMAIN rows : /\ Dated(rows[i]) /\ rows[i].state # filtered[1].state
                            /\ rows[i].state \in Elems(options.states)
  /\ Len(options.states) = 3

\* C19: a click on the segment, category or region chart that reports a
\* label of the chart sets exactly the corresponding selector to it: the
\* other four selectors and both year bounds keep their value; a click that
\* reports no label or an empty label leaves the Filter State and the
\* filtered rows as they are; and after a click with a label some row is
\* filtered.
C19_ChartClick ==
  [][/\ ClickSegment =>
          /\ UNCHANGED <<region, category, stateName, shipMode, yearFrom, yearTo>>
          /\ \/ UNCHANGED <<segment, filtered>>
             \/ segment' \in Elems(bySegment.labels) /\ filtered' # <<>>
     /\ ClickCategory =>
          /\ UNCHANGED <<region, segment, stateName, shipMode, yearFrom, yearTo>>
          /\ \/ UNCHANGED <<category, filtered>>
             \/ category' \in Elems(byCategory.labels) /\ filtered' # <<>>
     /\ ClickRegion =>
          /\ UNCHANGED <<segment, category, stateName, shipMode, yearFrom, yearTo>>
          /\ \/ UNCHANGED <<region, filtered>>
             \/ region' \in Elems(salesByRegion.labels) /\ filtered' # <<>>]_vars

\* C19 witness: the state after a click on a region label while a segment
\* was selected: the region is a label of the region chart, the segment is
\* still set, the other inputs are at their defaults, and the filtered rows
\* are some but not all of the rows with an order date.
C19_Witness ==
  /\ lastUi = "input" /\ Shown
  /\ region # All /\ region \in Elems(salesByRegion.labels)
  /\ segment # All /\ category = All /\ stateName = All /\ shipMode = All
  /\ yearFrom = yearBounds.minY /\ yearTo = yearBounds.maxY
  /\ Len(filtered) > 0 /\ Len(filtered) < Len(SelectSeq(rows, Dated))

\* C20: after a successful load, once the year-init effect has run and
\* before any user event, yearFrom and yearTo are the least and the greatest
\* order-date year of the rows (2010 and 2016 when no row has one or there
\* is no row), so the filtered rows are exactly the rows with an order date;
\* and the effect runs only before the first user event, never over a year
\* range the user has set.
C20_YearDefaults ==
  /\ [](Shown /\ pc = "done" /\ lastUi = "none"
          => AtReset /\ filtered = SelectSeq(rows, Dated))
  /\ [][YearInit => lastUi = "none"]_vars

\* C20 witness: the page right after the load and the effect, on a dataset
\* of three rows of which one has no order date and the others span years
\* that are not the ones the hooks start with.
C20_Witness ==
  /\ Shown /\ pc = "done" /\ lastUi = "none"
  /\ Len(rows) = 3 /\ Len(filtered) = 2
  /\ yearFrom < yearTo /\ yearFrom # DefaultYearFrom /\ yearTo # DefaultYearTo
  /\ \E i \in DOMAIN rows : rows[i].orderDate.kind = "null"

\* The keys of a field among the filtered rows, and the sum of a metric over
\* the filtered rows with one key.
KeysOf(field) == {filtered[i][field] : i \in DOMAIN filtered}
SumOfKey(field, metric, k) ==
  SumSeq([i \in DOMAIN filtered |-> IF filtered[i][field] = k THEN filtered[i][metric] ELSE 0])

\* Key k stands before key l in the full descending grouped sum: its sum is
\* greater, or equal with k met first among the filtered rows.
Before(field, metric, k, l) ==
  \/ SumOfKey(field, metric, k) > SumOfKey(field, metric, l)
  \/ /\ SumOfKey(field, metric, k) = SumOfKey(field, metric, l)
     /\ FirstRow(field, k) < FirstRow(field, l)

\* The view is the first n entries of the full descending grouped sum.
FirstEntries(view, field, metric, n) ==
  /\ Len(view.values) = Len(view.labels)
  /\ Len(view.labels) <= n
  /\ Cardinality(KeysOf(field)) <= n => Len(view.labels) = Cardinality(KeysOf(field))
  /\ Cardinality(KeysOf(field)) > n => Len(view.labels) = n
  /\ \A j \in DOMAIN view.labels :
       /\ view.labels[j] \in KeysOf(field)
       /\ view.values[j] = SumOfKey(field, metric, view.labels[j])
  /\ \A j, k \in DOMAIN view.labels :
       j < k => Before(field, metric, view.labels[j], view.labels[k])
  /\ \A k \in KeysOf(field) \ Elems(view.labels) :
       \A j \in DOMAIN view.labels :
         /\ SumOfKey(field, metric, k) <= view.values[j]
         /\ Before(field, metric, view.labels[j], k)

\* C21: the sub-category profit view has at most 10 entries and the
\* product-container sales view at most 8, and each is the first entries of
\* the full descending grouped sum over the filtered rows: no key left out
\* has a sum greater than a key kept, and with no more distinct keys than
\* the limit none is left out.
C21_TopEntries ==
  /\ FirstEntries(profitBySubCategory, "subCategory", "profit", 10)
  /\ FirstEntries(salesByProductContainer, "productContainer", "sales", 8)

\* C21 witness: the filtered rows hold more than 10 sub-categories and more
\* than 8 containers, both views are full, and a sub-category left out is
\* met among the rows before one that is kept.
C21_Witness ==
  /\ Cardinality(KeysOf("subCategory")) > 10 /\ Len(profitBySubCategory.labels) = 10
  /\ Cardinality(KeysOf("productContainer")) > 8 /\ Len(salesByProductContainer.labels) = 8
  /\ \E k \in KeysOf("subCategory") \ Elems(profitBySubCategory.labels) :
       \E j \in DOMAIN profitBySubCategory.labels :
         FirstRow("subCategory", k) < FirstRow("subCategory", profitBySubCategory.labels[j])

\* One of the two outcomes of the load has been applied: the rows were
\* stored and there is no error text, or an error text was stored and no
\* rows.
Settled ==
  \/ rawGen = 1 /\ err = ""
  \/ rawGen = 0 /\ raw = <<>> /\ err # ""

\* C22: loading is true from the mount until the fetch completes; once it is
\* false it never becomes true again, and then exactly one outcome has been
\* applied; and when the component stays mounted and the fetch completes,
\* loading eventually is false for good.
C22_LoadSettles ==
  /\ [](pc # "done" => loading)
  /\ [](~loading => pc = "done" /\ Settled /\ ~(rawGen = 1 /\ err # ""))
  /\ [][~loading => ~loading']_vars
  /\ ([]alive => <>[]~loading)

\* C22 witness: the load has succeeded with rows, loading is false, and a
\* user event has been handled since.
C22_Witness ==
  /\ alive /\ pc = "done" /\ ~loading /\ rawGen = 1 /\ err = ""
  /\ Len(raw) > 0 /\ lastUi = "input" /\ Len(filtered) > 0

====
